---------------------------- MODULE Spec2Model ----------------------------
(***************************************************************************)
(* State reconciliation and treasury / position accounting core of the     *)
(* trade executor: Enzyme vault treasury sync, trade execution life cycle, *)
(* and the repair engine.                                                   *)
(*                                                                         *)
(* Quantities are integers (token units).  Timestamps (started_at,         *)
(* broadcasted_at, ...) are modelled by whether they are set.  A Python    *)
(* exception leaves every in-place mutation made before the raise in the   *)
(* state object; the name of the exception is recorded in last_call.err.   *)
(***************************************************************************)
EXTENDS Integers, Sequences, FiniteSets, TLC

(***************************************************************************)
(* Bounds of the model                                                     *)
(***************************************************************************)
MaxBlocks == 2

MaxAmount == 2

MaxTrades == 2

MaxQuantity == 2

\* The number of operations run on the state
MaxCalls == 7
\* The largest balance of interest-bearing tokens the lending protocol reports
MaxTokenAmount == 3
\* The decimal places kept of a Decimal (quantities of interest-bearing tokens,
\* weights); Python keeps 28 significant digits
DecimalPlaces == 2
\* The positions that hold the same interest-bearing token
MaxLoans == 3
\* The interest syncs of a run that starts with the credit positions in place
MaxInterestSyncs == 3
\* The operations on loans of a run that starts with a funded vault
MaxLoanCalls == 4

(***************************************************************************)
(* Program constants                                                       *)
(***************************************************************************)
DeploymentBlock == 2

FirstBalanceUpdateId == 1

FirstId == 1

ReserveAsset == "USDC"

BaseAssets == {"WETH"}
\* The interest-bearing token of a credit supply position (its pair's base)
CreditAsset == "aUSDC"
\* The debt token of a short position (its pair's base); its collateral is CreditAsset
ShortAsset == "vWETH"

Assets == {ReserveAsset} \cup BaseAssets

\* The prices the strategy assumes
Prices == {1}

NoErr == "none"
\* The address of the vault
VaultAddress == "vault"
\* BlockchainTransaction.nonce of a record whose nonce was never set (None)
NoNonce == -1
\* state.sync.interest before the first interest sync: no assets, no block
NoInterestSync == [assets |-> <<>>, last_sync_block |-> 0]

\* No file on disk
NoFiles == <<>>

VARIABLES
    chain,                  \* chain[i]: balance event mined in block DeploymentBlock + i
    deployment,             \* state.sync.deployment (block_number 0 = None)
    last_block_scanned,     \* state.sync.treasury.last_block_scanned (0 = None)
    processed_events,       \* state.sync.treasury.processed_events (set of BalanceUpdate)
    next_balance_update_id, \* portfolio.next_balance_update_id
    reserves,               \* portfolio.reserves: asset -> ReservePosition
    positions,              \* position_id -> TradingPosition
    open_positions,         \* ids in portfolio.open_positions
    closed_positions,       \* ids in portfolio.closed_positions
    frozen_positions,       \* ids in portfolio.frozen_positions, in insertion order
    trades,                 \* trade_id -> TradeExecution (all trades of all positions)
    current_nonce,          \* hot_wallet.current_nonce
    last_call,              \* the last operation run: name, inputs, result, exception
    calls,                  \* the number of operations run so far
    interest_sync,          \* state.sync.interest: assets and last_sync_block
    files                   \* the files on disk: path -> content of the file

vars == <<chain, deployment, last_block_scanned, processed_events,
          next_balance_update_id, reserves, positions, open_positions,
          closed_positions, frozen_positions, trades, current_nonce, last_call,
          calls, interest_sync, files>>

\* state.sync.deployment of a new state, and after sync_initial found the
\* deployment event of the vault in a block
NoDeployment == [address |-> "none", block_number |-> 0]

Deployed(block_number) == [address |-> VaultAddress, block_number |-> block_number]

\* SyncState.is_initialised: the deployment block is known
initialised == deployment.block_number # 0

(***************************************************************************)
(* Generic helpers                                                         *)
(***************************************************************************)
RECURSIVE SumSeq(_)
SumSeq(s) == IF s = <<>> THEN 0 ELSE s[1] + SumSeq(Tail(s))

RECURSIVE SumOver(_, _)
SumOver(f, S) ==
    IF S = {} THEN 0
    ELSE LET x == CHOOSE y \in S : TRUE IN f[x] + SumOver(f, S \ {x})

\* Decimal values are counted in units of 10^-DecimalPlaces
One == 10 ^ DecimalPlaces

\* Decimal(n) of a whole number
Dec(n) == n * One

\* The quotient num / den rounded to a whole number of units, ties to even
\* (ROUND_HALF_EVEN, the rounding of the default Decimal context)
RoundHalfEven(num, den) ==
    LET q == num \div den
        r == num % den
    IN  IF 2 * r > den \/ (2 * r = den /\ q % 2 = 1) THEN q + 1 ELSE q

\* Decimal division and multiplication
DecDiv(x, y) == RoundHalfEven(x * One, y)

DecMul(x, y) == RoundHalfEven(x * y, One)

(***************************************************************************)
(* The mutable ledger the operations work on, as one record, so that an    *)
(* operation can be written as a function from ledger to ledger.           *)
(***************************************************************************)
Ledger ==
    [reserves |-> reserves, positions |-> positions,
     open_positions |-> open_positions, closed_positions |-> closed_positions,
     frozen_positions |-> frozen_positions, trades |-> trades,
     next_balance_update_id |-> next_balance_update_id,
     current_nonce |-> current_nonce]

SetLedgerInit(L) ==
    /\ reserves = L.reserves
    /\ positions = L.positions
    /\ open_positions = L.open_positions
    /\ closed_positions = L.closed_positions
    /\ frozen_positions = L.frozen_positions
    /\ trades = L.trades
    /\ next_balance_update_id = L.next_balance_update_id
    /\ current_nonce = L.current_nonce

SetLedger(L) ==
    /\ reserves' = L.reserves
    /\ positions' = L.positions
    /\ open_positions' = L.open_positions
    /\ closed_positions' = L.closed_positions
    /\ frozen_positions' = L.frozen_positions
    /\ trades' = L.trades
    /\ next_balance_update_id' = L.next_balance_update_id
    /\ current_nonce' = L.current_nonce

(***************************************************************************)
(* Treasury sync (Enzyme vault)                                            *)
(***************************************************************************)

\* Portfolio.initialise_reserves: one empty reserve position for the asset
initialise_reserves(L, asset) ==
    [L EXCEPT !.reserves = (asset :> [quantity |-> 0, balance_updates |-> <<>>])]

\* Portfolio.get_open_position_for_asset: the open position trading the asset
get_open_position_for_asset(L, asset) ==
    {p \in L.open_positions : L.positions[p].pair = asset}

\* EnzymeVaultSyncModel.get_related_position: "reserve", a position id, or an error
get_related_position(L, asset) ==
    IF Cardinality(DOMAIN L.reserves) # 1
    THEN [err |-> "AssertionError", kind |-> "none", id |-> 0]
    ELSE IF asset \in DOMAIN L.reserves
    THEN [err |-> NoErr, kind |-> "reserve", id |-> 0]
    ELSE IF get_open_position_for_asset(L, asset) # {}
    THEN [err |-> NoErr, kind |-> "open_position",
          id |-> CHOOSE p \in get_open_position_for_asset(L, asset) : TRUE]
    ELSE [err |-> "UnknownAsset", kind |-> "none", id |-> 0]

\* The BalanceUpdate record
BalanceUpdate(id, ptype, cause, asset, past, new, tx, pid) ==
    [balance_update_id |-> id, position_type |-> ptype, type |-> cause,
     asset |-> asset, past_quantity |-> past, new_quantity |-> new,
     tx |-> tx, position_id |-> pid]

\* A deposit that takes its id from the counter and leaves the counter as it is
process_deposit_reusing_id(L, event) ==
    LET asset == event.items[1].asset
        amount == event.items[1].amount
        L1 == IF DOMAIN L.reserves = {} THEN initialise_reserves(L, asset) ELSE L
    IN  IF DOMAIN L.reserves # {} /\ asset \notin DOMAIN L.reserves
        THEN [L |-> L, out |-> <<>>, applied |-> <<>>, err |-> "AssertionError"]
        ELSE LET past_balance == L1.reserves[asset].quantity
                 new_balance == past_balance + amount
                 event_id == L1.next_balance_update_id
                 L2 == [L1 EXCEPT
                          !.reserves[asset].quantity = @ + amount,
                          !.reserves[asset].balance_updates = Append(@, event_id)]
             IN [L |-> L2,
                 out |-> <<BalanceUpdate(event_id, "reserve", "deposit", asset,
                                         past_balance, new_balance, event.tx, 0)>>,
                 applied |-> <<amount>>,
                 err |-> NoErr]

\* A deposit that opens a reserve position for every asset it meets
process_deposit_any_asset(L, event) ==
    LET asset == event.items[1].asset
        amount == event.items[1].amount
        L1 == IF asset \in DOMAIN L.reserves THEN L
              ELSE [L EXCEPT !.reserves =
                      [a \in DOMAIN @ \cup {asset} |->
                         IF a = asset THEN [quantity |-> 0, balance_updates |-> <<>>]
                         ELSE @[a]]]
        event_id == L1.next_balance_update_id
    IN  [L |-> [L1 EXCEPT !.reserves[asset].quantity = @ + amount,
                          !.reserves[asset].balance_updates = Append(@, event_id),
                          !.next_balance_update_id = @ + 1],
         out |-> <<BalanceUpdate(event_id, "reserve", "deposit", asset,
                                 L1.reserves[asset].quantity,
                                 L1.reserves[asset].quantity + amount, event.tx, 0)>>,
         applied |-> <<amount>>,
         err |-> NoErr]

\* EnzymeVaultSyncModel.process_deposit
\* Result: the ledger, the BalanceUpdate list, the quantity changes made, the exception
process_deposit(L, event) ==
    LET asset == event.items[1].asset
        amount == event.items[1].amount
        L1 == IF DOMAIN L.reserves = {} THEN initialise_reserves(L, asset) ELSE L
    IN  IF DOMAIN L.reserves # {} /\ asset \notin DOMAIN L.reserves
        THEN [L |-> L, out |-> <<>>, applied |-> <<>>, err |-> "AssertionError"]
        ELSE LET past_balance == L1.reserves[asset].quantity
                 new_balance == past_balance + amount
                 event_id == L1.next_balance_update_id
                 L2 == [L1 EXCEPT
                          !.reserves[asset].quantity = @ + amount,
                          !.next_balance_update_id = @ + 1,
                          !.reserves[asset].balance_updates = Append(@, event_id)]
             IN [L |-> L2,
                 out |-> <<BalanceUpdate(event_id, "reserve", "deposit", asset,
                                         past_balance, new_balance, event.tx, 0)>>,
                 applied |-> <<amount>>,
                 err |-> NoErr]

\* One iteration of the loop of process_redemption, after get_related_position
\* has returned the position rel
redeem_from(L, item, tx, rel) ==
        LET event_id == L.next_balance_update_id
            past_balance == IF rel.kind = "reserve"
                            THEN L.reserves[item.asset].quantity
                            ELSE L.positions[rel.id].quantity
            new_balance == past_balance - item.amount
            L1 == [L EXCEPT !.next_balance_update_id = @ + 1]
            L2 == IF rel.kind = "reserve"
                  THEN [L1 EXCEPT
                          !.reserves[item.asset].quantity = @ - item.amount,
                          !.reserves[item.asset].balance_updates = Append(@, event_id)]
                  ELSE [L1 EXCEPT
                          !.positions[rel.id].quantity = @ - item.amount,
                          !.positions[rel.id].balance_updates = Append(@, event_id)]
        IN  IF ~(new_balance > 0)
            THEN [L |-> L2, out |-> <<>>, applied |-> <<-item.amount>>,
                  err |-> "AssertionError"]
            ELSE [L |-> L2,
                  out |-> <<BalanceUpdate(event_id, rel.kind, "redemption", item.asset,
                                          past_balance, new_balance, tx, rel.id)>>,
                  applied |-> <<-item.amount>>,
                  err |-> NoErr]

\* A redemption loop that passes over an asset it cannot map to a position
redeem_one_skipping(L, item, tx) ==
    IF get_related_position(L, item.asset).err = "UnknownAsset"
    THEN [L |-> L, out |-> <<>>, applied |-> <<>>, err |-> NoErr]
    ELSE IF get_related_position(L, item.asset).err # NoErr
    THEN [L |-> L, out |-> <<>>, applied |-> <<>>,
          err |-> get_related_position(L, item.asset).err]
    ELSE redeem_from(L, item, tx, get_related_position(L, item.asset))

\* One iteration of the loop of process_redemption (one redeemed asset)
redeem_one(L, item, tx) ==
    IF get_related_position(L, item.asset).err # NoErr
    THEN [L |-> L, out |-> <<>>, applied |-> <<>>,
          err |-> get_related_position(L, item.asset).err]
    ELSE redeem_from(L, item, tx, get_related_position(L, item.asset))

\* EnzymeVaultSyncModel.process_redemption: the loop over event.redeemed_assets.
\* When an iteration raises, the updates built so far are lost with the call.
RECURSIVE redeem_loop(_, _, _)
redeem_loop(L, items, tx) ==
    IF items = <<>> THEN [L |-> L, out |-> <<>>, applied |-> <<>>, err |-> NoErr]
    ELSE LET r == redeem_one(L, Head(items), tx)
         IN IF r.err # NoErr THEN r
            ELSE LET rest == redeem_loop(r.L, Tail(items), tx)
                 IN [L |-> rest.L,
                     out |-> IF rest.err # NoErr THEN <<>> ELSE r.out \o rest.out,
                     applied |-> r.applied \o rest.applied,
                     err |-> rest.err]

process_redemption(L, event) == redeem_loop(L, event.items, event.tx)

\* EnzymeVaultSyncModel.translate_and_apply_event
translate_and_apply_event(L, event) ==
    IF event.kind = "deposit" THEN process_deposit(L, event)
    ELSE process_redemption(L, event)

\* fetch_vault_balance_events through the event reader: the balance events
\* of the blocks start_block..end_block, in block order
events_in(blocks, start_block, end_block) ==
    LET idx == {i \in 1..Len(blocks) :
                   /\ start_block <= DeploymentBlock + i
                   /\ DeploymentBlock + i <= end_block}
        RECURSIVE build(_)
        build(i) == IF i > Len(blocks) THEN <<>>
                    ELSE IF i \in idx THEN <<blocks[i]>> \o build(i + 1)
                    ELSE build(i + 1)
    IN build(1)

\* The reorganisation monitor finds no contradiction during the call
NoReorg == [by |-> "none", after |-> 0]

\* The point of events_iter at which the reader raises
ReorgRaised == [kind |-> "reorg", tx |-> 0, items |-> <<>>]

\* events_iter: the reader (read_events with reorg_mon) is consumed by the loop of
\* sync_treasury; it yields the events of the window in block order and, when it
\* reaches a block whose data contradicts the monitor, raises
\* ChainReorganisationDetected after the reorg.after events it has yielded
reader_events(window, reorg) ==
    IF reorg.by = "reader" THEN Append(SubSeq(window, 1, reorg.after), ReorgRaised)
    ELSE window

\* The loop "for chain_event in events_iter: events += translate_and_apply_event":
\* an event is applied as soon as the reader yields it
RECURSIVE apply_events(_, _)
apply_events(L, evs) ==
    IF evs = <<>> THEN [L |-> L, out |-> <<>>, applied |-> <<>>, err |-> NoErr]
    ELSE IF Head(evs) = ReorgRaised
    THEN [L |-> L, out |-> <<>>, applied |-> <<>>, err |-> "ChainReorganisationDetected"]
    ELSE LET r == translate_and_apply_event(L, Head(evs))
         IN IF r.err # NoErr THEN r
            ELSE LET rest == apply_events(r.L, Tail(evs))
                 IN [L |-> rest.L,
                     out |-> IF rest.err # NoErr THEN <<>> ELSE r.out \o rest.out,
                     applied |-> r.applied \o rest.applied,
                     err |-> rest.err]

\* BalanceUpdate.__eq__ / __hash__: identity of the on-chain event behind the update
SameEvent(a, b) ==
    /\ a.type = b.type
    /\ a.tx = b.tx
    /\ (a.type = "redemption" => a.asset = b.asset)

\* The loop that checks the new events against past_events and records them.
\* past is the set computed before the loop starts.
RECURSIVE record_events(_, _, _)
record_events(pe, past, evs) ==
    IF evs = <<>> THEN [processed |-> pe, err |-> NoErr]
    ELSE IF \E old \in past : SameEvent(Head(evs), old)
    THEN [processed |-> pe, err |-> "AssertionError"]
    ELSE record_events(pe \cup {Head(evs)}, past, Tail(evs))

\* A scan window that starts at the last scanned block instead of after it
start_block_rescanning(last) == IF last # 0 THEN last ELSE DeploymentBlock

\* A scan window that always starts at the deployment block
start_block_from_deployment(last) == deployment.block_number

\* The first block of the scan window
start_block_of(last) == IF last # 0 THEN last + 1 ELSE deployment.block_number

\* EnzymeVaultSyncModel.sync_treasury; the chain the call reads is chain'.
\* reorg: where the reorganisation monitor detects contradicted block data: in
\* process_blocks (only_chain_listener set), in the reader, or nowhere
sync_treasury_reading(reorg) ==
    LET start_block == start_block_of(last_block_scanned)
        end_block == DeploymentBlock + Len(chain')
        call == [op |-> "sync_treasury", start_block |-> start_block,
                 end_block |-> end_block, window |-> <<>>, ret |-> <<>>,
                 applied |-> <<>>, err |-> NoErr]
    IN  IF ~initialised \/ reorg.by = "process_blocks"
        THEN /\ last_call' = [call EXCEPT !.err = IF ~initialised THEN "AssertionError"
                                                  ELSE "ChainReorganisationDetected"]
             /\ UNCHANGED <<deployment, last_block_scanned, processed_events,
                            next_balance_update_id, reserves, positions, open_positions,
                            closed_positions, frozen_positions, trades, current_nonce>>
        ELSE
        LET window == events_in(chain', start_block, end_block)
            r == apply_events(Ledger, reader_events(window, reorg))
            rec == record_events(processed_events, processed_events, r.out)
        IN  /\ SetLedger(r.L)
            /\ IF r.err # NoErr
               THEN /\ UNCHANGED <<processed_events, last_block_scanned>>
                    /\ last_call' = [call EXCEPT !.err = r.err, !.window = window,
                                                 !.applied = r.applied]
               ELSE /\ processed_events' = rec.processed
                    /\ IF rec.err # NoErr
                       THEN /\ UNCHANGED last_block_scanned
                            /\ last_call' = [call EXCEPT !.err = rec.err,
                                               !.window = window, !.applied = r.applied]
                       ELSE /\ last_block_scanned' = end_block
                            /\ last_call' = [call EXCEPT !.ret = r.out,
                                               !.window = window, !.applied = r.applied]
            /\ UNCHANGED deployment

\* EnzymeVaultSyncModel.sync_treasury on a chain whose blocks the monitor finds
\* unchanged; the chain the call reads is chain'
sync_treasury == sync_treasury_reading(NoReorg)

\* A sync_initial that does not look whether the state is initialised
sync_initial_twice(block_number) ==
    IF ~(block_number > 1)
    THEN /\ last_call' = [op |-> "sync_initial", err |-> "AssertionError"]
         /\ UNCHANGED <<chain, deployment, last_block_scanned, processed_events,
                        next_balance_update_id, reserves, positions, open_positions,
                        closed_positions, frozen_positions, trades, current_nonce>>
    ELSE /\ deployment' = Deployed(block_number)
         /\ last_call' = [op |-> "sync_initial", err |-> NoErr]
         /\ UNCHANGED <<chain, last_block_scanned, processed_events,
                        next_balance_update_id, reserves, positions, open_positions,
                        closed_positions, frozen_positions, trades, current_nonce>>

\* EnzymeVaultSyncModel.sync_initial; block_number is the block of the
\* deployment event that was read
sync_initial(block_number) ==
    IF initialised \/ ~(block_number > 1)
    THEN /\ last_call' = [op |-> "sync_initial", err |-> "AssertionError"]
         /\ UNCHANGED <<chain, deployment, last_block_scanned, processed_events,
                        next_balance_update_id, reserves, positions, open_positions,
                        closed_positions, frozen_positions, trades, current_nonce>>
    ELSE /\ deployment' = Deployed(block_number)
         /\ last_call' = [op |-> "sync_initial", err |-> NoErr]
         /\ UNCHANGED <<chain, last_block_scanned, processed_events,
                        next_balance_update_id, reserves, positions, open_positions,
                        closed_positions, frozen_positions, trades, current_nonce>>


(***************************************************************************)
(* Trades and positions                                                    *)
(***************************************************************************)

\* position.loan of a position that has no loan (None)
NoLoan ==
    [collateral |-> "none", quantity |-> 0, last_token_amount |-> 0,
     last_accrued_interest |-> 0, borrowed |-> "none", borrowed_quantity |-> 0,
     borrowed_last_token_amount |-> 0]

\* TradeExecution as created by Portfolio.create_trade
NewTrade(id, pid, pair, quantity, price, ttype) ==
    [trade_id |-> id, position_id |-> pid, pair |-> pair,
     planned_quantity |-> quantity, planned_price |-> price,
     planned_reserve |-> IF quantity > 0 THEN quantity * price ELSE 0,
     trade_type |-> ttype,
     started_at |-> FALSE, broadcasted_at |-> FALSE, executed_at |-> FALSE,
     failed_at |-> FALSE, repaired_at |-> FALSE,
     executed_quantity |-> 0, executed_price |-> 0, executed_reserve |-> 0,
     reserve_currency_allocated |-> 0, repaired_trade_id |-> 0,
     blockchain_transactions |-> <<>>,
     planned_collateral_allocation |-> 0, planned_collateral_consumption |-> 0,
     executed_collateral_allocation |-> 0, executed_collateral_consumption |-> 0,
     planned_loan_update |-> NoLoan, executed_loan_update |-> NoLoan]

\* TradingPosition as opened by Portfolio.create_trade
NewPosition(pid, pair) ==
    [position_id |-> pid, pair |-> pair, quantity |-> 0,
     balance_updates |-> <<>>, trades |-> <<>>,
     loan |-> NoLoan, balance_update_events |-> <<>>]

is_buy(t) == t.planned_quantity > 0

is_sell(t) == t.planned_quantity < 0

\* TradeExecution.get_status
get_status(t) ==
    IF t.repaired_at THEN "repaired"
    ELSE IF t.failed_at THEN "failed"
    ELSE IF t.executed_at THEN "success"
    ELSE IF t.broadcasted_at THEN "broadcasted"
    ELSE IF t.started_at THEN "started"
    ELSE "planned"

is_success(t) == get_status(t) = "success"

is_failed(t) == get_status(t) = "failed"

\* TradeExecution.is_repair_needed: broadcast but never resolved, or failed and
\* not yet compensated
is_repair_needed(t) == get_status(t) \in {"broadcasted", "failed"}

Abs(x) == IF x < 0 THEN -x ELSE x

\* TradeExecution.get_position_quantity: what the trade contributes to the
\* quantity of its position; 0 for a repaired and for a failed trade
get_position_quantity(t) ==
    IF t.repaired_at \/ t.failed_at THEN 0
    ELSE IF t.executed_at THEN t.executed_quantity
    ELSE t.planned_quantity

\* TradeExecution.get_value: 0 for a repaired and for a failed trade
get_value(t) ==
    IF t.repaired_at \/ t.failed_at THEN 0
    ELSE IF t.executed_at THEN Abs(t.executed_quantity) * t.executed_price
    ELSE Abs(t.planned_quantity) * t.planned_price

\* Portfolio.create_trade: the trade goes to the given position, else to the
\* open position of the pair, else to a newly opened position
create_trade(L, pair, quantity, price, ttype, position) ==
    LET existing == {p \in L.open_positions : L.positions[p].pair = pair}
        created == position = 0 /\ existing = {}
        pid == IF position # 0 THEN position
               ELSE IF existing # {} THEN CHOOSE p \in existing : TRUE
               ELSE Len(L.positions) + FirstId
        tid == Len(L.trades) + FirstId
        L1 == IF created
              THEN [L EXCEPT !.positions = Append(@, NewPosition(pid, pair)),
                             !.open_positions = @ \cup {pid}]
              ELSE L
        L2 == [L1 EXCEPT !.trades = Append(@, NewTrade(tid, pid, pair, quantity, price, ttype)),
                         !.positions[pid].trades = Append(@, tid)]
    IN [L |-> L2, position |-> pid, trade |-> tid, created |-> created]

\* Portfolio.move_capital_from_reserves_to_trade
move_capital_from_reserves_to_trade(L, tid, underflow_check) ==
    LET reserve == L.trades[tid].planned_reserve
    IN  IF ReserveAsset \notin DOMAIN L.reserves
        THEN [L |-> L, err |-> "KeyError"]
        ELSE IF underflow_check /\ L.reserves[ReserveAsset].quantity < reserve
        THEN [L |-> L, err |-> "NotEnoughMoney"]
        ELSE [L |-> [L EXCEPT !.trades[tid].reserve_currency_allocated = reserve,
                              !.reserves[ReserveAsset].quantity = @ - reserve],
              err |-> NoErr]

\* State.start_execution: capital allocation of one trade
start_execution(L, tid) ==
    IF is_buy(L.trades[tid])
    THEN LET r == move_capital_from_reserves_to_trade(L, tid, TRUE)
         IN IF r.err # NoErr THEN r
            ELSE [L |-> [r.L EXCEPT !.trades[tid].started_at = TRUE], err |-> NoErr]
    ELSE [L |-> [L EXCEPT !.trades[tid].started_at = TRUE], err |-> NoErr]

\* State.start_trades
RECURSIVE start_trades(_, _)
start_trades(L, batch) ==
    IF batch = <<>> THEN [L |-> L, err |-> NoErr]
    ELSE LET r == start_execution(L, Head(batch))
         IN IF r.err # NoErr THEN r ELSE start_trades(r.L, Tail(batch))

\* TransactionBuilder.sign_transaction: the hot wallet signs with its next nonce;
\* the BlockchainTransaction record is built without the nonce (and without the
\* hash), so that its nonce field keeps its default
sign_transaction(L, tid) ==
    [L EXCEPT !.trades[tid].blockchain_transactions =
                  Append(@, [nonce |-> NoNonce, status |-> "signed"]),
              !.current_nonce = @ + 1]

\* RoutingModel.setup_trades: one swap transaction for each trade
RECURSIVE setup_trades(_, _)
setup_trades(L, batch) ==
    IF batch = <<>> THEN L
    ELSE setup_trades(sign_transaction(L, Head(batch)), Tail(batch))

\* State.mark_trade_success
mark_trade_success(L, tid, executed_price, executed_quantity, executed_reserve) ==
    LET t == L.trades[tid]
        pid == t.position_id
        L1 == [L EXCEPT !.trades[tid].executed_at = TRUE,
                        !.trades[tid].executed_quantity = executed_quantity,
                        !.trades[tid].executed_price = executed_price,
                        !.trades[tid].executed_reserve = executed_reserve,
                        !.positions[pid].quantity = @ + executed_quantity]
        L2 == IF is_sell(t) /\ ReserveAsset \in DOMAIN L1.reserves
              THEN [L1 EXCEPT !.reserves[ReserveAsset].quantity = @ + executed_reserve]
              ELSE L1
    IN  IF L2.positions[pid].quantity = 0 /\ pid \in L2.open_positions
        THEN [L2 EXCEPT !.open_positions = @ \ {pid},
                        !.closed_positions = @ \cup {pid}]
        ELSE L2

\* State.mark_trade_failed
mark_trade_failed(L, tid) == [L EXCEPT !.trades[tid].failed_at = TRUE]

\* TradeExecution.mark_broadcasted
mark_broadcasted(L, tid) == [L EXCEPT !.trades[tid].broadcasted_at = TRUE]

\* A failure report that marks the trade failed and never raises
report_failure_continuing(L, tid, stop_on_execution_failure) ==
    [L |-> mark_trade_failed(L, tid), err |-> NoErr]

\* report_failure
report_failure(L, tid, stop_on_execution_failure) ==
    LET L1 == mark_trade_failed(L, tid)
        txs == L1.trades[tid].blockchain_transactions
    IN  IF stop_on_execution_failure /\ \E i \in 1..Len(txs) : txs[i].status # "success"
        THEN [L |-> L1, err |-> "TradeExecutionFailed"]
        ELSE [L |-> L1, err |-> NoErr]

\* A broadcast loop without the guard on the nonces of the batch
RECURSIVE broadcast_loop_unguarded(_, _, _)
broadcast_loop_unguarded(L, batch, nonces) ==
    IF batch = <<>> THEN [L |-> L, err |-> NoErr]
    ELSE IF Len(L.trades[Head(batch)].blockchain_transactions) = 0
    THEN [L |-> L, err |-> "AssertionError"]
    ELSE broadcast_loop_unguarded(mark_broadcasted(L, Head(batch)), Tail(batch), nonces)

\* broadcast: the loop over the instructions, then the submission to the node
RECURSIVE broadcast_loop(_, _, _)
broadcast_loop(L, batch, nonces) ==
    IF batch = <<>> THEN [L |-> L, err |-> NoErr]
    ELSE LET tid == Head(batch)
             txs == L.trades[tid].blockchain_transactions
             ns == {txs[i].nonce : i \in 1..Len(txs)}
         IN IF Len(txs) = 0 THEN [L |-> L, err |-> "AssertionError"]
            ELSE IF ns \cap nonces # {} \/ Cardinality(ns) # Len(txs)
            THEN [L |-> L, err |-> "AssertionError"]
            ELSE broadcast_loop(mark_broadcasted(L, tid), Tail(batch), nonces \cup ns)

\* A broadcast that submits the transactions and leaves the trades unmarked
broadcast_unmarked(L, batch, node_ok) ==
    IF broadcast_loop(L, batch, {}).err # NoErr
    THEN [L |-> L, err |-> broadcast_loop(L, batch, {}).err, submitted |-> <<>>]
    ELSE IF ~node_ok THEN [L |-> L, err |-> "NodeError", submitted |-> <<>>]
    ELSE [L |-> L, err |-> NoErr, submitted |-> batch]

\* broadcast: submitted is the broadcast_batch the node has accepted
broadcast(L, batch, node_ok) ==
    LET r == broadcast_loop(L, batch, {})
    IN  IF r.err # NoErr THEN [L |-> r.L, err |-> r.err, submitted |-> <<>>]
        ELSE IF ~node_ok THEN [L |-> r.L, err |-> "NodeError", submitted |-> <<>>]
        ELSE [L |-> r.L, err |-> NoErr, submitted |-> batch]

\* The receipt of the transactions of a trade is written on the transaction
set_confirmation_information(L, tid, status) ==
    [L EXCEPT !.trades[tid].blockchain_transactions =
        [i \in 1..Len(@) |-> [@[i] EXCEPT !.status = status]]]

\* resolve_trades: each trade of the batch becomes success or failed by its receipts.
\* receipts[i] is the status of the transactions of the i-th trade, slip[i] the
\* difference between the planned and the executed quantity of a buy
RECURSIVE resolve_trades(_, _, _, _, _)
resolve_trades(L, batch, receipts, slip, stop_on_execution_failure) ==
    IF batch = <<>> THEN [L |-> L, err |-> NoErr]
    ELSE LET tid == Head(batch)
             t == L.trades[tid]
             L1 == set_confirmation_information(L, tid, Head(receipts))
         IN IF Head(receipts) = "success"
            THEN LET q == IF is_buy(t) THEN t.planned_quantity - Head(slip)
                          ELSE t.planned_quantity
                     res == IF is_buy(t) THEN 0 ELSE Abs(q) * t.planned_price
                 IN resolve_trades(mark_trade_success(L1, tid, t.planned_price, q, res),
                                   Tail(batch), Tail(receipts), Tail(slip),
                                   stop_on_execution_failure)
            ELSE LET r == report_failure(L1, tid, stop_on_execution_failure)
                 IN IF r.err # NoErr THEN r
                    ELSE resolve_trades(r.L, Tail(batch), Tail(receipts), Tail(slip),
                                        stop_on_execution_failure)

\* broadcast_and_resolve.  timeout_positive: confirmation_timeout > timedelta(0);
\* confirmed: wait_trades_to_complete got the receipts before the timeout
broadcast_and_resolve(L, batch, node_ok, timeout_positive, confirmed, receipts, slip, stop_on_execution_failure) ==
    LET b == broadcast(L, batch, node_ok)
    IN  IF b.err # NoErr THEN b
        ELSE IF ~timeout_positive THEN b
        ELSE IF ~confirmed THEN [L |-> b.L, err |-> "ConfirmationTimedOut"]
        ELSE resolve_trades(b.L, batch, receipts, slip, stop_on_execution_failure)

\* freeze_position_on_failed_trade
RECURSIVE freeze_position_on_failed_trade(_, _)
freeze_position_on_failed_trade(L, batch) ==
    IF batch = <<>> THEN L
    ELSE LET t == L.trades[Head(batch)]
             pid == t.position_id
             L1 == IF is_failed(t) /\ pid \in L.open_positions
                   THEN [L EXCEPT !.open_positions = @ \ {pid},
                                  !.frozen_positions = Append(@, pid)]
                   ELSE L
         IN freeze_position_on_failed_trade(L1, Tail(batch))

\* ExecutionModel.execute_trades.  The call of broadcast_and_resolve passes
\* web3, state and trades and the two confirmation keywords: the parameter
\* resolve_trades, which has no default, gets no argument, so the call raises
\* TypeError before the body of broadcast_and_resolve runs, and the freeze of the
\* positions of failed trades after it is not reached
execute_trades(L, batch) ==
    LET s == start_trades(L, batch)
    IN  IF s.err # NoErr THEN s
        ELSE [L |-> setup_trades(s.L, batch), err |-> "TypeError"]

\* Portfolio.check_for_nonce_reuse: no transaction in the state carries the nonce
check_for_nonce_reuse(L, nonce) ==
    \A i \in 1..Len(L.trades) :
        \A j \in 1..Len(L.trades[i].blockchain_transactions) :
            L.trades[i].blockchain_transactions[j].nonce # nonce

\* translate_to_naive_swap
translate_to_naive_swap(L, tid) ==
    LET t == L.trades[tid]
    IN [L EXCEPT !.trades[tid].reserve_currency_allocated =
                     IF is_buy(t) THEN t.planned_reserve ELSE 0,
                 !.trades[tid].blockchain_transactions =
                     <<[nonce |-> L.current_nonce, status |-> "signed"]>>,
                 !.current_nonce = @ + 1]

\* prepare_swaps
RECURSIVE prepare_swaps(_, _, _)
prepare_swaps(L, instructions, underflow_check) ==
    IF instructions = <<>> THEN [L |-> L, err |-> NoErr]
    ELSE LET tid == Head(instructions)
         IN IF ~check_for_nonce_reuse(L, L.current_nonce)
            THEN [L |-> L, err |-> "AssertionError"]
            ELSE
            LET L1 == translate_to_naive_swap(L, tid)
                m == IF is_buy(L1.trades[tid])
                     THEN move_capital_from_reserves_to_trade(L1, tid, underflow_check)
                     ELSE [L |-> L1, err |-> NoErr]
            IN IF m.err # NoErr THEN m
               ELSE prepare_swaps([m.L EXCEPT !.trades[tid].started_at = TRUE],
                                  Tail(instructions), underflow_check)

\* TestTrader.create_and_execute; price_impact is the fraction num / den
create_and_execute(L, pair, quantity, price, num, den) ==
    LET c == create_trade(L, pair, quantity, price, "rebalance", 0)
        s == start_execution(c.L, c.trade)
    IN  IF s.err # NoErr THEN s
        ELSE
        LET L1 == mark_broadcasted(s.L, c.trade)
            executed_price == (price * num) \div den
            executed_quantity == IF quantity > 0 THEN (quantity * num) \div den
                                 ELSE quantity
            executed_reserve == IF quantity > 0 THEN 0
                                ELSE Abs(quantity * executed_price)
        IN [L |-> mark_trade_success(L1, c.trade, executed_price, executed_quantity,
                                     executed_reserve),
            err |-> NoErr]

(***************************************************************************)
(* Repair engine                                                           *)
(***************************************************************************)

\* TradeExecution.mark_success as called by make_counter_trade (force=True)
mark_success(L, tid, executed_price, executed_quantity, executed_reserve) ==
    [L EXCEPT !.trades[tid].executed_at = TRUE,
              !.trades[tid].executed_price = executed_price,
              !.trades[tid].executed_quantity = executed_quantity,
              !.trades[tid].executed_reserve = executed_reserve]

\* make_counter_trade, after mark_success: the four assertions on the counter
\* trade
counter_trade_checked(L, trade) ==
    IF /\ is_success(L.trades[trade])
       /\ get_value(L.trades[trade]) = 0
       /\ get_position_quantity(L.trades[trade]) = 0
       /\ L.trades[trade].trade_type = "repair"
    THEN [L |-> L, trade |-> trade, err |-> NoErr]
    ELSE [L |-> L, trade |-> trade, err |-> "AssertionError"]

\* A counter trade that negates the quantity of the broken trade instead of
\* executing with zero quantity
counter_trade_negating(c, pid, t) ==
    [L |-> mark_success(c.L, c.trade, t.planned_price, -t.planned_quantity, 0),
     trade |-> c.trade, err |-> NoErr]

\* make_counter_trade, after create_trade: c is what create_trade returned
counter_trade_marked(c, pid, t) ==
    IF c.created \/ c.position # pid
    THEN [L |-> c.L, trade |-> c.trade, err |-> "AssertionError"]
    ELSE counter_trade_checked(mark_success(c.L, c.trade, t.planned_price, 0, 0),
                               c.trade)

\* A counter trade that also takes the planned quantity of the broken trade out
\* of the position
make_counter_trade_moving_quantity(L, pid, tid) ==
    [counter_trade_marked(
         create_trade(L, L.trades[tid].pair, -L.trades[tid].planned_quantity,
                      L.trades[tid].planned_price, "repair", pid),
         pid, L.trades[tid])
     EXCEPT !.L.positions[pid].quantity = @ - L.trades[tid].planned_quantity]

\* make_counter_trade
make_counter_trade(L, pid, tid) ==
    counter_trade_marked(
        create_trade(L, L.trades[tid].pair, -L.trades[tid].planned_quantity,
                     L.trades[tid].planned_price, "repair", pid),
        pid, L.trades[tid])

\* repair_trade, after the two assignments: the four assertions on the trade
repair_trade_checked(L, trade, tid) ==
    IF /\ get_status(L.trades[tid]) = "repaired"
       /\ get_value(L.trades[tid]) = 0
       /\ get_position_quantity(L.trades[tid]) = 0
       /\ L.trades[tid].planned_quantity # 0
    THEN [L |-> L, trade |-> trade, err |-> NoErr]
    ELSE [L |-> L, trade |-> trade, err |-> "AssertionError"]

\* A repair that links the counter trade and does not set repaired_at
repair_trade_unmarked(c, tid) ==
    IF c.err # NoErr THEN c
    ELSE repair_trade_checked([c.L EXCEPT !.trades[c.trade].repaired_trade_id = tid],
                              c.trade, tid)

\* repair_trade, after make_counter_trade: c is what make_counter_trade returned
repair_trade_marked(c, tid) ==
    IF c.err # NoErr THEN c
    ELSE repair_trade_checked([c.L EXCEPT !.trades[tid].repaired_at = TRUE,
                                          !.trades[c.trade].repaired_trade_id = tid],
                              c.trade, tid)

\* repair_trade
repair_trade(L, tid) ==
    repair_trade_marked(make_counter_trade(L, L.trades[tid].position_id, tid), tid)

\* The ids of a set in ascending order
RECURSIVE Ascending(_)
Ascending(S) ==
    IF S = {} THEN <<>>
    ELSE LET m == CHOOSE x \in S : \A y \in S : x <= y
         IN <<m>> \o Ascending(S \ {m})

RECURSIVE FilterSeq(_, _)
FilterSeq(s, keep) ==
    IF s = <<>> THEN <<>>
    ELSE IF Head(s) \in keep THEN <<Head(s)>> \o FilterSeq(Tail(s), keep)
    ELSE FilterSeq(Tail(s), keep)

RECURSIVE Flatten(_)
Flatten(ss) == IF ss = <<>> THEN <<>> ELSE Head(ss) \o Flatten(Tail(ss))

\* find_trades_to_be_repaired: the trades needing repair of the open, then of the
\* frozen positions, each position's in the order of its trade collection
trades_of_positions(L, ps) ==
    Flatten([k \in 1..Len(ps) |->
               FilterSeq(L.positions[ps[k]].trades,
                         {i \in 1..Len(L.trades) : is_repair_needed(L.trades[i])})])

\* A scan that goes through the closed positions as well
find_trades_in_all_positions(L) ==
    trades_of_positions(L, Ascending(L.open_positions) \o L.frozen_positions
                             \o Ascending(L.closed_positions))

\* find_trades_to_be_repaired
find_trades_to_be_repaired(L) ==
    trades_of_positions(L, Ascending(L.open_positions) \o L.frozen_positions)

\* unfreeze_position: the body is "pass", the result is None
unfreeze_position(L, pid) == FALSE

\* A repair loop that puts each new counter trade in front of the list
repair_loop_step_prepending(acc, r) ==
    [L |-> r.L,
     new_trades |-> IF r.err # NoErr THEN <<>> ELSE <<r.trade>> \o acc.new_trades,
     err |-> r.err]

\* One iteration of the repair loop: r is what repair_trade returned
repair_loop_step(acc, r) ==
    [L |-> r.L,
     new_trades |-> IF r.err # NoErr THEN <<>> ELSE Append(acc.new_trades, r.trade),
     err |-> r.err]

\* A repair loop that stops after the first trade
repair_loop_first_only(acc, todo) ==
    IF todo = <<>> \/ acc.err # NoErr THEN acc
    ELSE repair_loop_step(acc, repair_trade(acc.L, Head(todo)))

\* The loop "for t in trades_to_be_repaired: new_trades.append(repair_trade(...))":
\* acc is the result so far
RECURSIVE repair_loop(_, _)
repair_loop(acc, todo) ==
    IF todo = <<>> \/ acc.err # NoErr THEN acc
    ELSE repair_loop(repair_loop_step(acc, repair_trade(acc.L, Head(todo))), Tail(todo))

\* The loop "for p in frozen_positions: if unfreeze_position(p): ..."
unfrozen_positions_of(L, frozen) ==
    FilterSeq(frozen, {p \in 1..Len(L.positions) : unfreeze_position(L, p)})

\* repair_trades, from the confirmation on: r is the result of the repair loop
repair_trades_result(r, report) ==
    IF r.err # NoErr
    THEN [L |-> r.L, call |-> [report EXCEPT !.err = r.err]]
    ELSE [L |-> r.L,
          call |-> [report EXCEPT
                      !.unfrozen_positions =
                          unfrozen_positions_of(r.L, report.frozen_positions),
                      !.new_trades = r.new_trades]]

\* str.lower on the answers an operator types
lower(answer) == IF answer = "Y" THEN "y" ELSE IF answer = "N" THEN "n" ELSE answer

\* A repair that asks the operator only after it has repaired the trades
repair_trades_confirmed_late(L, report) ==
    IF report.interactive /\ lower(report.confirmation) # "y"
    THEN [L |-> repair_loop([L |-> L, new_trades |-> <<>>, err |-> NoErr],
                            report.trades_needing_repair).L,
          call |-> [report EXCEPT !.err = "RepairAborted"]]
    ELSE repair_trades_result(
             repair_loop([L |-> L, new_trades |-> <<>>, err |-> NoErr],
                         report.trades_needing_repair),
             report)

\* repair_trades, from the interactive confirmation on
repair_trades_confirmed(L, report) ==
    IF report.interactive /\ lower(report.confirmation) # "y"
    THEN [L |-> L, call |-> [report EXCEPT !.err = "RepairAborted"]]
    ELSE repair_trades_result(
             repair_loop([L |-> L, new_trades |-> <<>>, err |-> NoErr],
                         report.trades_needing_repair),
             report)

\* A repair that goes on to repair the trades in a dry run too
repair_trades_run_ignoring_dry_run(L, report) ==
    IF Len(report.trades_needing_repair) = 0
    THEN [L |-> L, call |-> report]
    ELSE repair_trades_confirmed(L, report)

\* repair_trades, from the first return on
repair_trades_run(L, report) ==
    IF Len(report.trades_needing_repair) = 0 \/ ~report.attempt_repair
    THEN [L |-> L, call |-> report]
    ELSE repair_trades_confirmed(L, report)

\* What repair_trades finds before it acts: the frozen positions and the trades
\* to be repaired, with the arguments of the call
repair_report(L, attempt_repair, interactive, confirmation) ==
    [op |-> "repair_trades", attempt_repair |-> attempt_repair,
     interactive |-> interactive, confirmation |-> confirmation,
     frozen_positions |-> L.frozen_positions, unfrozen_positions |-> <<>>,
     trades_needing_repair |-> find_trades_to_be_repaired(L),
     new_trades |-> <<>>, err |-> NoErr]

\* A repair run that returns every frozen position to the open positions
repair_trades_unfreezing(L, attempt_repair, interactive, confirmation) ==
    [repair_trades_run(L, repair_report(L, attempt_repair, interactive, confirmation))
     EXCEPT !.L.open_positions =
                @ \cup {L.frozen_positions[k] : k \in 1..Len(L.frozen_positions)},
            !.L.frozen_positions = <<>>]

\* repair_trades; confirmation is the answer of the operator in interactive mode.
\* The report is the RepairResult, with the arguments and the exception of the call
repair_trades(L, attempt_repair, interactive, confirmation) ==
    repair_trades_run(L, repair_report(L, attempt_repair, interactive, confirmation))

(***************************************************************************)
(* Interest of credit positions                                            *)
(***************************************************************************)

\* The BalanceUpdate record update_interest builds
InterestBalanceUpdate(id, asset, old_balance, quantity, pid) ==
    [balance_update_id |-> id, position_type |-> "open_position",
     cause |-> "interest", asset |-> asset, old_balance |-> old_balance,
     quantity |-> quantity, position_id |-> pid]

\* Portfolio.allocate_balance_update_id: the id handed out is the counter,
\* which moves on by one
allocate_balance_update_id(L) ==
    [L |-> [L EXCEPT !.next_balance_update_id = @ + 1],
     id |-> L.next_balance_update_id]

\* TradingPosition.add_balance_update_event
add_balance_update_event(L, pid, evt) ==
    [L EXCEPT !.positions[pid].balance_updates = Append(@, evt.balance_update_id),
              !.positions[pid].balance_update_events = Append(@, evt)]

\* TradingPosition.calculate_accrued_interest_quantity
calculate_accrued_interest_quantity(L, pid, asset) ==
    SumSeq([i \in 1..Len(L.positions[pid].balance_update_events) |->
              IF L.positions[pid].balance_update_events[i].asset = asset
              THEN L.positions[pid].balance_update_events[i].quantity ELSE 0])

\* update_interest, after the checks of its arguments, with the id allocated
update_interest_with_id(a, pid, asset, new_token_amount) ==
    LET old_balance == a.L.positions[pid].loan.last_token_amount
        gained_interest == new_token_amount - old_balance
        evt == InterestBalanceUpdate(a.id, asset, old_balance, gained_interest, pid)
        L1 == add_balance_update_event(a.L, pid, evt)
        L2 == [L1 EXCEPT
                 !.positions[pid].loan.last_accrued_interest =
                     calculate_accrued_interest_quantity(L1, pid, asset),
                 !.positions[pid].loan.last_token_amount = new_token_amount]
    IN  IF ~(0 < Abs(gained_interest) /\ Abs(gained_interest) < Dec(999))
        THEN [L |-> a.L, out |-> <<>>, err |-> "AssertionError"]
        ELSE [L |-> L2, out |-> <<evt>>, err |-> NoErr]

\* update_interest
update_interest(L, pid, asset, new_token_amount) ==
    IF ~(pid \in L.open_positions
         \/ \E k \in 1..Len(L.frozen_positions) : L.frozen_positions[k] = pid)
    THEN [L |-> L, out |-> <<>>, err |-> "AssertionError"]
    ELSE IF L.positions[pid].loan = NoLoan
    THEN [L |-> L, out |-> <<>>, err |-> "AssertionError"]
    ELSE IF asset # L.positions[pid].loan.collateral
    THEN [L |-> L, out |-> <<>>, err |-> "AssertionError"]
    ELSE update_interest_with_id(allocate_balance_update_id(L), pid, asset,
                                 new_token_amount)

\* TradeExecution.is_short, is_credit_supply: by the pair of the trade
is_short(trade) == trade.pair = ShortAsset

is_credit_supply(trade) == trade.pair = CreditAsset

\* The loan-to-value at which the lending protocol liquidates, in percent
LiquidationThresholdPercent == 85

\* Loan.check_health: LiquidationRisked when something is borrowed and the
\* borrowed value is at or above the liquidation threshold of the collateral
\* value (both assets are priced at 1)
check_health(loan) ==
    IF /\ loan.borrowed # "none"
       /\ loan.borrowed_quantity > 0
       /\ 100 * loan.borrowed_quantity >= LiquidationThresholdPercent * loan.quantity
    THEN "LiquidationRisked" ELSE NoErr

\* What a loan function gives back when it raises before its health check
LoanRaised(err) == [loan |-> NoLoan, err |-> err, checked |-> FALSE]

\* What a loan function gives back from its health check on
LoanChecked(loan) ==
    [loan |-> IF check_health(loan) = NoErr THEN loan ELSE NoLoan,
     err |-> check_health(loan), checked |-> TRUE]

\* A create_credit_supply_loan that does not look at the loan of the position
create_credit_supply_loan_again(position, trade) ==
    IF ~is_credit_supply(trade)
    THEN LoanRaised("AssertionError")
    ELSE LoanChecked([NoLoan EXCEPT
                        !.collateral = trade.pair,
                        !.quantity = Dec(trade.planned_reserve),
                        !.last_token_amount = Dec(trade.planned_reserve)])

\* create_credit_supply_loan: collateral only, tracked from the planned reserve
create_credit_supply_loan(position, trade) ==
    IF ~is_credit_supply(trade) \/ position.loan # NoLoan
    THEN LoanRaised("AssertionError")
    ELSE LoanChecked([NoLoan EXCEPT
                        !.collateral = trade.pair,
                        !.quantity = Dec(trade.planned_reserve),
                        !.last_token_amount = Dec(trade.planned_reserve)])

\* update_credit_supply_loan: the loan of the position is changed in place
update_credit_supply_loan(position, trade) ==
    IF ~is_credit_supply(trade) \/ position.pair # CreditAsset \/ position.loan = NoLoan
    THEN LoanRaised("AssertionError")
    ELSE LoanChecked([position.loan EXCEPT !.quantity = @ + Dec(trade.planned_quantity)])

\* The trade fields create_short_loan and update_short_loan read in a mode
loan_fields(trade, mode) ==
    IF mode = "plan"
    THEN [quantity |-> trade.planned_quantity, reserve |-> trade.planned_reserve,
          collateral_allocation |-> trade.planned_collateral_allocation,
          collateral_consumption |-> trade.planned_collateral_consumption]
    ELSE [quantity |-> trade.executed_quantity, reserve |-> trade.executed_reserve,
          collateral_allocation |-> trade.executed_collateral_allocation,
          collateral_consumption |-> trade.executed_collateral_consumption]

\* A create_short_loan that returns the loan without the health check
create_short_loan_unchecked(position, trade, mode) ==
    LET f == loan_fields(trade, mode)
        collateral_quantity == f.reserve + f.collateral_allocation + f.collateral_consumption
    IN  IF ~is_short(trade) \/ Len(position.trades) # 1 \/ position.loan # NoLoan
        THEN LoanRaised("AssertionError")
        ELSE IF ~(f.quantity < 0)
        THEN LoanRaised("AssertionError")
        ELSE IF f.collateral_allocation = 0 /\ ~(f.reserve > 0)
        THEN LoanRaised("AssertionError")
        ELSE [loan |-> [collateral |-> CreditAsset,
                        quantity |-> Dec(collateral_quantity),
                        last_token_amount |-> Dec(collateral_quantity),
                        last_accrued_interest |-> 0,
                        borrowed |-> ShortAsset,
                        borrowed_quantity |-> Dec(Abs(f.quantity)),
                        borrowed_last_token_amount |-> Dec(Abs(f.quantity))],
              err |-> NoErr, checked |-> FALSE]

\* create_short_loan
create_short_loan(position, trade, mode) ==
    LET f == loan_fields(trade, mode)
        borrowed_quantity == Abs(f.quantity)
        collateral_quantity == f.reserve + f.collateral_allocation + f.collateral_consumption
    IN  IF ~is_short(trade) \/ Len(position.trades) # 1 \/ position.loan # NoLoan
        THEN LoanRaised("AssertionError")
        ELSE IF ~(f.quantity < 0)
        THEN LoanRaised("AssertionError")
        ELSE IF f.collateral_allocation = 0 /\ ~(f.reserve > 0)
        THEN LoanRaised("AssertionError")
        ELSE LoanChecked([collateral |-> CreditAsset,
                          quantity |-> Dec(collateral_quantity),
                          last_token_amount |-> Dec(collateral_quantity),
                          last_accrued_interest |-> 0,
                          borrowed |-> ShortAsset,
                          borrowed_quantity |-> Dec(borrowed_quantity),
                          borrowed_last_token_amount |-> Dec(borrowed_quantity)])

\* update_short_loan without its health check
update_short_loan_unchecked(loan, position, trade, mode) ==
    LET f == loan_fields(trade, mode)
        collateral_change == f.collateral_consumption + f.collateral_allocation + f.reserve
        borrow_change == -trade.planned_quantity
        changed == [loan EXCEPT
                      !.quantity = @ + Dec(collateral_change),
                      !.borrowed_quantity = @ + Dec(borrow_change),
                      !.borrowed_last_token_amount = @ + Dec(borrow_change),
                      !.last_token_amount = @ + Dec(collateral_change)]
    IN  IF ~is_short(trade) \/ ~(Len(position.trades) > 1)
        THEN LoanRaised("AssertionError")
        ELSE IF loan = NoLoan
        THEN LoanRaised("AttributeError")
        ELSE IF loan.quantity + Dec(collateral_change) + loan.last_accrued_interest < 0
        THEN LoanRaised("AssertionError")
        ELSE [loan |-> changed, err |-> NoErr, checked |-> FALSE]

\* update_short_loan: the loan given is a clone of the loan of the position
update_short_loan(loan, position, trade, mode) ==
    LET f == loan_fields(trade, mode)
        collateral_change == f.collateral_consumption + f.collateral_allocation + f.reserve
        borrow_change == -trade.planned_quantity
        changed == [loan EXCEPT
                      !.quantity = @ + Dec(collateral_change),
                      !.borrowed_quantity = @ + Dec(borrow_change),
                      !.borrowed_last_token_amount = @ + Dec(borrow_change),
                      !.last_token_amount = @ + Dec(collateral_change)]
    IN  IF ~is_short(trade) \/ ~(Len(position.trades) > 1)
        THEN LoanRaised("AssertionError")
        ELSE IF loan = NoLoan
        THEN LoanRaised("AttributeError")
        ELSE IF loan.quantity + Dec(collateral_change) + loan.last_accrued_interest < 0
        THEN LoanRaised("AssertionError")
        ELSE IF changed.borrowed_quantity > 0
        THEN LoanChecked(changed)
        ELSE [loan |-> changed, err |-> NoErr, checked |-> FALSE]

\* AssetIdentifier.is_interest_accruing: the aToken of the credit pair
is_interest_accruing(asset) == asset = CreditAsset

\* Portfolio.get_open_and_frozen_positions: the open, then the frozen positions
get_open_and_frozen_positions(L) == Ascending(L.open_positions) \o L.frozen_positions

\* The Counter prepare_interest_distribution keeps: 0 for an asset never added
total_of(totals, asset) == IF asset \in DOMAIN totals THEN totals[asset] ELSE 0

\* prepare_interest_distribution, the loop over the positions ps that collects
\* the entries, the assets and the totals into op
RECURSIVE collect_entries(_, _, _)
collect_entries(L, ps, op) ==
    IF ps = <<>> \/ op.err # NoErr THEN op
    ELSE LET p == L.positions[Head(ps)]
             asset == p.pair
             entry == [position |-> Head(ps), asset |-> asset, side |-> "collateral",
                       quantity |-> p.loan.quantity, weight |-> 0, price |-> 1]
         IN  IF ~is_interest_accruing(asset) THEN collect_entries(L, Tail(ps), op)
             ELSE IF p.loan = NoLoan THEN [op EXCEPT !.err = "AttributeError"]
             ELSE IF ~(entry.quantity > 0) THEN [op EXCEPT !.err = "AssertionError"]
             ELSE collect_entries(L, Tail(ps),
                      [op EXCEPT !.entries = Append(@, entry),
                                 !.assets = @ \cup {asset},
                                 !.totals = [a \in DOMAIN @ \cup {asset} |->
                                               IF a = asset
                                               THEN total_of(@, a) + entry.quantity
                                               ELSE @[a]]])

\* A prepare_interest_distribution that weighs each entry by the number of entries
prepare_interest_distribution_evenly(L) ==
    LET op == collect_entries(L, get_open_and_frozen_positions(L),
                  [assets |-> {}, entries |-> <<>>, totals |-> [a \in {} |-> 0],
                   err |-> NoErr])
    IN  IF op.err # NoErr THEN op
        ELSE [op EXCEPT !.entries =
                 [i \in 1..Len(op.entries) |->
                    [op.entries[i] EXCEPT !.weight = DecDiv(One, Dec(Len(op.entries)))]]]

\* prepare_interest_distribution: the entries get their weights at the end
prepare_interest_distribution(L) ==
    LET op == collect_entries(L, get_open_and_frozen_positions(L),
                  [assets |-> {}, entries |-> <<>>, totals |-> [a \in {} |-> 0],
                   err |-> NoErr])
    IN  IF op.err # NoErr THEN op
        ELSE [op EXCEPT !.entries =
                 [i \in 1..Len(op.entries) |->
                    [op.entries[i] EXCEPT !.weight =
                        DecDiv(op.entries[i].quantity,
                               op.totals[op.entries[i].asset])]]]

\* InterestDistributionEntry.distribute, when its generator is run
distribute(L, entry, total_accrued) ==
    LET position_accrued == DecMul(total_accrued, entry.weight)
        new_token_amount == DecMul(L.positions[entry.position].loan.quantity,
                                   position_accrued)
    IN  update_interest(L, entry.position, entry.asset, new_token_amount)

\* accrue_interest_for_asset, the loop over the entries: each entry of the asset
\* yields the generator distribute returns, which updates the position only if
\* the consumer runs it (run_yielded)
RECURSIVE distribute_loop(_, _, _, _, _)
distribute_loop(acc, entries, asset, interest_accrued, run_yielded) ==
    IF entries = <<>> \/ acc.err # NoErr THEN acc
    ELSE IF Head(entries).asset # asset
    THEN distribute_loop(acc, Tail(entries), asset, interest_accrued, run_yielded)
    ELSE IF ~run_yielded
    THEN distribute_loop([acc EXCEPT !.out = Append(@, "generator")], Tail(entries),
                         asset, interest_accrued, run_yielded)
    ELSE LET r == distribute(acc.L, Head(entries), interest_accrued)
         IN  distribute_loop([L |-> r.L, out |-> acc.out \o r.out, err |-> r.err],
                             Tail(entries), asset, interest_accrued, run_yielded)

\* An accrue_interest_for_asset without the two assertions on the accrued interest
accrue_interest_for_asset_unchecked(L, op, asset, new_amount, max_interest_gain, run_yielded) ==
    distribute_loop([L |-> L, out |-> <<>>, err |-> NoErr], op.entries, asset,
                    new_amount - total_of(op.totals, asset), run_yielded)

\* InterestDistributionOperation.accrue_interest_for_asset
accrue_interest_for_asset(L, op, asset, new_amount, max_interest_gain, run_yielded) ==
    LET interest_accrued == new_amount - total_of(op.totals, asset)
    IN  IF ~(interest_accrued > 0)
        THEN [L |-> L, out |-> <<>>, err |-> "AssertionError"]
        ELSE IF total_of(op.totals, asset) = 0
        THEN [L |-> L, out |-> <<>>, err |-> "DivisionByZero"]
        ELSE IF ~(Abs(DecDiv(interest_accrued, total_of(op.totals, asset)))
                    <= max_interest_gain)
        THEN [L |-> L, out |-> <<>>, err |-> "AssertionError"]
        ELSE distribute_loop([L |-> L, out |-> <<>>, err |-> NoErr], op.entries,
                             asset, interest_accrued, run_yielded)

\* accrue_interest, the loop over the items of on_chain_balances
RECURSIVE accrue_loop(_, _, _, _, _)
accrue_loop(acc, balances, op, max_interest_gain, run_yielded) ==
    IF balances = <<>> \/ acc.err # NoErr THEN acc
    ELSE LET r == accrue_interest_for_asset(acc.L, op, Head(balances).asset,
                      Head(balances).balance, max_interest_gain, run_yielded)
         IN  accrue_loop([L |-> r.L, out |-> acc.out \o r.out, err |-> r.err],
                         Tail(balances), op, max_interest_gain, run_yielded)

\* accrue_interest, consumed to its end: the checkpoint is set after the loop
accrue_interest(L, sync, balances, op, block_number, max_interest_gain, run_yielded) ==
    LET r == accrue_loop([L |-> L, out |-> <<>>, err |-> NoErr], balances, op,
                         max_interest_gain, run_yielded)
    IN  [L |-> r.L, out |-> r.out, err |-> r.err,
         sync |-> IF r.err # NoErr THEN sync
                  ELSE [assets |-> balances, last_sync_block |-> block_number]]

(***************************************************************************)
(* Actions: one call of an operation on the state each                     *)
(***************************************************************************)
UnchangedSync ==
    UNCHANGED <<chain, deployment, last_block_scanned, processed_events, interest_sync,
                files>>

\* The portfolio is what it was before the step
PortfolioUnchanged ==
    UNCHANGED <<next_balance_update_id, reserves, positions, open_positions,
                closed_positions, frozen_positions, trades, current_nonce>>

\* Every call counts towards the bound on the calls of a run
Counted ==
    /\ calls < MaxCalls
    /\ calls' = calls + 1

\* The shapes of in-kind redemptions the chain produces
RedemptionShapes == {<<ReserveAsset>>, <<"WETH">>, <<ReserveAsset, "WETH">>}

\* The amount of each asset an in-kind redemption takes
RedeemAmounts == {1}

\* What the vault holds of an asset, as far as the ledger knows
Holding(asset) ==
    IF asset = ReserveAsset
    THEN IF asset \in DOMAIN reserves THEN reserves[asset].quantity ELSE 0
    ELSE SumSeq([p \in 1..Len(positions) |->
                   IF positions[p].pair = asset THEN positions[p].quantity ELSE 0])

\* The vault holds tokens of an asset that no open position tracks (tokens of a
\* frozen position, or tokens sent to the vault); shares to redeem exist once a
\* deposit was made
Untracked(asset) ==
    /\ asset # ReserveAsset
    /\ ReserveAsset \in DOMAIN reserves
    /\ \A p \in open_positions : positions[p].pair # asset

\* The events a new block may carry: a deposit of the reserve asset, or an
\* in-kind redemption of assets the vault holds
NewEvents(block) ==
    {[kind |-> "deposit", tx |-> block,
      items |-> <<[asset |-> ReserveAsset, amount |-> a]>>] : a \in 1..MaxAmount}
    \cup {[kind |-> "redemption", tx |-> block,
           items |-> [i \in 1..Len(sh) |-> [asset |-> sh[i], amount |-> a]]] :
             sh \in {x \in RedemptionShapes :
                        \A i \in 1..Len(x) : Holding(x[i]) >= 1 \/ Untracked(x[i])},
             a \in {y \in RedeemAmounts :
                        \A z \in Assets : Holding(z) >= 1 => Holding(z) >= y}}

\* The blocks mined since the chain was last read: each carries a new deposit or
\* redemption, or, after a chain reorganisation, the event of a block that was
\* scanned already
RECURSIVE MinedBlocks(_, _)
MinedBlocks(blocks, n) ==
    IF n = 0 THEN {blocks}
    ELSE UNION {MinedBlocks(Append(blocks, ev), n - 1) :
                  ev \in NewEvents(DeploymentBlock + Len(blocks) + 1)
                         \cup {blocks[i] : i \in {i \in 1..Len(blocks) :
                                  DeploymentBlock + i <= last_block_scanned}}}

\* A sync call of the cycle, on the chain as it is at the call
SyncTreasury ==
    /\ \E n \in 0..(MaxBlocks - Len(chain)) :
          /\ n > 0 => initialised
          /\ \E blocks \in MinedBlocks(chain, n) : chain' = blocks
    /\ sync_treasury
    /\ UNCHANGED <<interest_sync, files>>
    /\ Counted

\* The deployment event is found in the deployment block, or in the first block
SyncInitial ==
    /\ \E block_number \in {1, DeploymentBlock} : sync_initial(block_number)
    /\ UNCHANGED <<interest_sync, files>>
    /\ Counted

\* The trades not made by the repair engine
StrategyTrades == {i \in 1..Len(trades) : trades[i].trade_type # "repair"}

PlannedTrades == Ascending({i \in 1..Len(trades) : get_status(trades[i]) = "planned"})

StartedTrades == Ascending({i \in 1..Len(trades) : get_status(trades[i]) = "started"})

FailedTrades == Ascending({i \in 1..Len(trades) : is_failed(trades[i])})

\* What of an open position is not yet committed to a sell that is under way
AvailableToSell(pid) ==
    positions[pid].quantity
    - SumSeq([k \in 1..Len(positions[pid].trades) |->
                LET t == trades[positions[pid].trades[k]]
                IN IF is_sell(t) /\ get_status(t) \in {"planned", "started", "broadcasted"}
                   THEN -t.planned_quantity ELSE 0])

\* The quantities the strategy may trade on the pair
TradeQuantities(pair) ==
    (1..MaxQuantity)
    \cup {-q : q \in {q \in 1..MaxQuantity :
                        \E p \in open_positions :
                            /\ positions[p].pair = pair
                            /\ AvailableToSell(p) >= q}}

\* The strategy decides a trade: State.create_trade
CreateTrade ==
    /\ Cardinality(StrategyTrades) < MaxTrades
    /\ \E pair \in BaseAssets, price \in Prices :
         \E quantity \in TradeQuantities(pair) :
            LET c == create_trade(Ledger, pair, quantity, price, "rebalance", 0)
            IN /\ SetLedger(c.L)
               /\ last_call' = [op |-> "create_trade", trade |-> c.trade, err |-> NoErr]
    /\ UnchangedSync
    /\ Counted

\* ExecutionModel.execute_trades on the trades the strategy planned
ExecuteTrades ==
    /\ PlannedTrades # <<>>
    /\ LET r == execute_trades(Ledger, PlannedTrades)
       IN /\ SetLedger(r.L)
          /\ last_call' = [op |-> "execute_trades", batch |-> PlannedTrades,
                           err |-> r.err]
    /\ UnchangedSync
    /\ Counted

\* prepare_swaps on the trades the strategy planned
PrepareSwaps ==
    /\ PlannedTrades # <<>>
    /\ \E underflow_check \in BOOLEAN :
          LET r == prepare_swaps(Ledger, PlannedTrades, underflow_check)
          IN /\ SetLedger(r.L)
             /\ last_call' = [op |-> "prepare_swaps", batch |-> PlannedTrades,
                              underflow_check |-> underflow_check, err |-> r.err]
    /\ UnchangedSync
    /\ Counted

\* The receipts the chain can give a batch: a sell succeeds only for tokens the
\* position holds
Receipts(batch) ==
    {r \in [1..Len(batch) -> {"success", "reverted"}] :
        \A i \in 1..Len(batch) :
            LET t == trades[batch[i]]
            IN (is_sell(t) /\ r[i] = "success") =>
                  positions[t.position_id].quantity >=
                      SumSeq([j \in 1..Len(batch) |->
                                IF /\ r[j] = "success"
                                   /\ is_sell(trades[batch[j]])
                                   /\ trades[batch[j]].position_id = t.position_id
                                THEN -trades[batch[j]].planned_quantity ELSE 0])}

\* The slippage of each trade of a batch: a buy may receive one token less
Slips(batch) ==
    {s \in [1..Len(batch) -> {0, 1}] :
        \A i \in 1..Len(batch) :
            s[i] = 1 => trades[batch[i]].planned_quantity > 1}

\* broadcast_and_resolve on the prepared trades.  Inputs that the call does not
\* read (the receipts when nothing is confirmed) are fixed
BroadcastAndResolve ==
    /\ StartedTrades # <<>>
    /\ \E node_ok \in BOOLEAN, timeout_positive \in BOOLEAN, confirmed \in BOOLEAN,
          stop_on_execution_failure \in BOOLEAN :
         \E receipts \in Receipts(StartedTrades), slip \in Slips(StartedTrades) :
            /\ (~node_ok \/ ~timeout_positive \/ ~confirmed) =>
                   /\ receipts = [i \in 1..Len(StartedTrades) |-> "reverted"]
                   /\ slip = [i \in 1..Len(StartedTrades) |-> 0]
                   /\ ~stop_on_execution_failure
            /\ ~timeout_positive => ~confirmed
            /\ ~node_ok => (timeout_positive /\ ~confirmed)
            /\ LET r == broadcast_and_resolve(Ledger, StartedTrades, node_ok,
                                              timeout_positive, confirmed, receipts,
                                              slip, stop_on_execution_failure)
               IN /\ SetLedger(r.L)
                  /\ last_call' = [op |-> "broadcast_and_resolve",
                                   batch |-> StartedTrades,
                                   node_ok |-> node_ok,
                                   timeout_positive |-> timeout_positive,
                                   confirmed |-> confirmed,
                                   stop_on_execution_failure |-> stop_on_execution_failure,
                                   submitted |-> broadcast(Ledger, StartedTrades,
                                                           node_ok).submitted,
                                   err |-> r.err]
    /\ UnchangedSync
    /\ Counted

\* freeze_position_on_failed_trade, as an execution model runs it on the trades
\* of a resolved batch
FreezePositionOnFailedTrade ==
    /\ FailedTrades # <<>>
    /\ SetLedger(freeze_position_on_failed_trade(Ledger, FailedTrades))
    /\ last_call' = [op |-> "freeze_position_on_failed_trade",
                     batch |-> FailedTrades, err |-> NoErr]
    /\ UnchangedSync
    /\ Counted

\* The price impacts the test trader is called with, as fractions
PriceImpacts == {<<1, 1>>}

\* TestTrader.create_and_execute
TestTraderCreateAndExecute ==
    /\ Cardinality(StrategyTrades) < MaxTrades
    /\ \E pair \in BaseAssets, price \in Prices, impact \in PriceImpacts :
         \E quantity \in TradeQuantities(pair) :
            /\ (price * impact[1]) % impact[2] = 0
            /\ (quantity * impact[1]) % impact[2] = 0
            /\ LET r == create_and_execute(Ledger, pair, quantity, price,
                                           impact[1], impact[2])
               IN /\ SetLedger(r.L)
                  /\ last_call' = [op |-> "create_and_execute", err |-> r.err]
    /\ UnchangedSync
    /\ Counted

\* What the operator may type at the prompt "Attempt to repair [y/n]"
Answers == {"y", "Y", "n"}

\* repair_trades.  Arguments that the call does not read (interactive in a dry
\* run, the answer when the call does not ask) are fixed
RepairTrades ==
    /\ \E attempt_repair \in BOOLEAN, interactive \in BOOLEAN, confirmation \in Answers :
          /\ ~attempt_repair => ~interactive
          /\ ~interactive => confirmation = "y"
          /\ LET r == repair_trades(Ledger, attempt_repair, interactive, confirmation)
             IN /\ SetLedger(r.L)
                /\ last_call' = r.call
    /\ UnchangedSync
    /\ Counted

Init ==
    /\ chain = <<>>
    /\ deployment = NoDeployment
    /\ last_block_scanned = 0
    /\ processed_events = {}
    /\ next_balance_update_id = FirstBalanceUpdateId
    /\ reserves = [a \in {} |-> 0]
    /\ positions = <<>>
    /\ open_positions = {}
    /\ closed_positions = {}
    /\ frozen_positions = <<>>
    /\ trades = <<>>
    /\ current_nonce = 0
    /\ last_call = [op |-> "init", err |-> NoErr]
    /\ calls = 0
    /\ interest_sync = NoInterestSync
    /\ files = NoFiles

Next ==
    \/ SyncInitial
    \/ SyncTreasury
    \/ CreateTrade
    \/ ExecuteTrades
    \/ PrepareSwaps
    \/ BroadcastAndResolve
    \/ FreezePositionOnFailedTrade
    \/ TestTraderCreateAndExecute
    \/ RepairTrades

Spec == Init /\ [][Next]_vars

(***************************************************************************)
(* The treasury sync and the interest updates of a portfolio that supplies *)
(* credit: it starts from a synced funding deposit and open positions      *)
(***************************************************************************)

\* The operations that fund a vault: sync_initial and the first sync_treasury
FundingCalls == 2

\* The ledger of a new state
EmptyLedger ==
    [reserves |-> [a \in {} |-> 0], positions |-> <<>>, open_positions |-> {},
     closed_positions |-> {}, frozen_positions |-> <<>>, trades |-> <<>>,
     next_balance_update_id |-> FirstBalanceUpdateId, current_nonce |-> 0]

\* The deposit that funds the vault, mined in the deployment block
FundingDeposit(amount) ==
    [kind |-> "deposit", tx |-> DeploymentBlock,
     items |-> <<[asset |-> ReserveAsset, amount |-> amount]>>]

\* A position opened by one executed buy of the pair
OpenedPosition(L, pair, quantity) == create_and_execute(L, pair, quantity, 1, 1, 1).L

\* The credit supply position of the last trade gets its loan
WithLoan(L) ==
    [L EXCEPT !.positions[Len(L.positions)].loan =
                  create_credit_supply_loan(L.positions[Len(L.positions)],
                                            L.trades[Len(L.trades)]).loan]

\* The ledger after the funding deposit was synced, an optional spot position
\* was opened and credit was supplied
CreditLedger(spot, credit, rest) ==
    LET funded == process_deposit(EmptyLedger,
                      FundingDeposit((IF spot THEN MaxQuantity ELSE 0) + credit + rest))
        L1 == IF spot THEN OpenedPosition(funded.L, "WETH", MaxQuantity) ELSE funded.L
    IN [L |-> WithLoan(OpenedPosition(L1, CreditAsset, credit)), out |-> funded.out]

InitInterest ==
    \E spot \in BOOLEAN, credit \in 1..MaxQuantity, rest \in 1..MaxAmount :
        LET c == CreditLedger(spot, credit, rest)
        IN  /\ chain = <<>>
            /\ deployment = Deployed(DeploymentBlock)
            /\ last_block_scanned = DeploymentBlock
            /\ processed_events = {c.out[1]}
            /\ next_balance_update_id = c.L.next_balance_update_id
            /\ reserves = c.L.reserves
            /\ positions = c.L.positions
            /\ open_positions = c.L.open_positions
            /\ closed_positions = c.L.closed_positions
            /\ frozen_positions = c.L.frozen_positions
            /\ trades = c.L.trades
            /\ current_nonce = c.L.current_nonce
            /\ last_call = [op |-> "init", err |-> NoErr]
            /\ calls = FundingCalls + (IF spot THEN 2 ELSE 1)
            /\ interest_sync = NoInterestSync
            /\ files = NoFiles

\* The assets the interest sync asks about
InterestAssets == {CreditAsset, ReserveAsset}

\* An interest update of one position with the token balance read on chain
UpdateInterest ==
    /\ \E pid \in 1..Len(positions), asset \in InterestAssets,
          new_token_amount \in 1..MaxTokenAmount :
          LET r == update_interest(Ledger, pid, asset, Dec(new_token_amount))
          IN  /\ SetLedger(r.L)
              /\ last_call' = [op |-> "update_interest", position_id |-> pid,
                               asset |-> asset, new_token_amount |-> Dec(new_token_amount),
                               ret |-> r.out, err |-> r.err]
    /\ UnchangedSync
    /\ Counted

NextInterest ==
    \/ SyncTreasury
    \/ UpdateInterest

InterestSpec == InitInterest /\ [][NextInterest]_vars

(***************************************************************************)
(* The interest sync of a portfolio with several credit supply positions:  *)
(* all but the last were frozen by a failed trade                          *)
(***************************************************************************)

\* The open credit supply position gets a second trade that fails, and freezes
FrozenByFailedTrade(L) ==
    LET c == create_trade(L, CreditAsset, 1, 1, "rebalance", 0)
        s == start_execution(c.L, c.trade)
    IN  freeze_position_on_failed_trade(
            mark_trade_failed(mark_broadcasted(s.L, c.trade), c.trade), <<c.trade>>)

\* The ledger after credit was supplied by one position per quantity of qs
RECURSIVE WithCreditPositions(_, _)
WithCreditPositions(L, qs) ==
    IF qs = <<>> THEN L
    ELSE LET opened == WithLoan(OpenedPosition(L, CreditAsset, Head(qs)))
         IN  WithCreditPositions(
                 IF Len(qs) > 1 THEN FrozenByFailedTrade(opened) ELSE opened, Tail(qs))

InitDistribution ==
    \E n \in 1..MaxLoans :
      \E qs \in [1..n -> 1..MaxQuantity] :
        LET funded == process_deposit(EmptyLedger, FundingDeposit(SumSeq(qs) + n))
            L == WithCreditPositions(funded.L, qs)
        IN  /\ chain = <<>>
            /\ deployment = Deployed(DeploymentBlock)
            /\ last_block_scanned = DeploymentBlock
            /\ processed_events = {funded.out[1]}
            /\ SetLedgerInit(L)
            /\ last_call = [op |-> "init", err |-> NoErr]
            /\ calls = MaxCalls - MaxInterestSyncs
            /\ interest_sync = NoInterestSync
            /\ files = NoFiles

\* What the lending protocol reports of a token, over the tracked total
InterestDeltas == {-One, 0, One \div 20, One \div 2, One}

\* The max_interest_gain the sync is run with: the default 0.05, and 1.0
MaxInterestGains == {One \div 20, One}

\* prepare_interest_distribution of the portfolio as it is
PrepareInterestDistribution ==
    /\ LET op == prepare_interest_distribution(Ledger)
       IN  last_call' = [op |-> "prepare_interest_distribution", ret |-> op,
                         err |-> op.err]
    /\ PortfolioUnchanged
    /\ UnchangedSync
    /\ Counted

\* The interest sync: the distribution is prepared, the balance of the credit
\* token is read on chain, accrue_interest is consumed to its end, and the
\* consumer runs what it was yielded or does not
AccrueInterest ==
    /\ \E delta \in InterestDeltas, max_interest_gain \in MaxInterestGains,
          run_yielded \in BOOLEAN :
          LET op == prepare_interest_distribution(Ledger)
              on_chain_balances ==
                  <<[asset |-> CreditAsset,
                     balance |-> total_of(op.totals, CreditAsset) + delta]>>
              r == accrue_interest(Ledger, interest_sync, on_chain_balances, op,
                                   DeploymentBlock + Len(chain), max_interest_gain,
                                   run_yielded)
          IN  /\ op.err = NoErr
              /\ SetLedger(r.L)
              /\ interest_sync' = r.sync
              /\ last_call' = [op |-> "accrue_interest", distribution |-> op,
                               on_chain_balances |-> on_chain_balances,
                               max_interest_gain |-> max_interest_gain,
                               run_yielded |-> run_yielded,
                               ret |-> r.out, err |-> r.err]
    /\ UNCHANGED <<chain, deployment, last_block_scanned, processed_events, files>>
    /\ Counted

NextDistribution ==
    \/ PrepareInterestDistribution
    \/ AccrueInterest

DistributionSpec == InitDistribution /\ [][NextDistribution]_vars

(***************************************************************************)
(* The loans of credit supply and short positions: trades are planned on   *)
(* a funded vault and executed, and the loan functions are called          *)
(***************************************************************************)

\* The loan function a trade of a position goes through: the create function
\* at the first trade of the position, the update function after it
loan_function_of(position, trade) ==
    IF is_short(trade)
    THEN IF Len(position.trades) = 1 THEN "create_short_loan" ELSE "update_short_loan"
    ELSE IF Len(position.trades) = 1 THEN "create_credit_supply_loan"
         ELSE "update_credit_supply_loan"

\* A call of one of the four loan functions by its name
call_loan_function(fn, position, trade, mode) ==
    IF fn = "create_short_loan" THEN create_short_loan(position, trade, mode)
    ELSE IF fn = "update_short_loan"
    THEN update_short_loan(position.loan, position, trade, mode)
    ELSE IF fn = "create_credit_supply_loan" THEN create_credit_supply_loan(position, trade)
    ELSE update_credit_supply_loan(position, trade)

\* update_credit_supply_loan works on position.loan itself, the other three
\* functions on a new loan or on a clone
loan_in_place(L, pid, fn, r) ==
    IF fn = "update_credit_supply_loan" /\ r.err = NoErr
    THEN [L EXCEPT !.positions[pid].loan = r.loan] ELSE L

\* TradingPosition.open_trade of a credit supply or short trade: the trade joins
\* the position and its planned loan comes from the loan function, in mode plan
open_loan_trade(L, pair, quantity, reserve, allocation, consumption) ==
    LET c == create_trade(L, pair, quantity, 1, "rebalance", 0)
        L1 == [c.L EXCEPT !.trades[c.trade].planned_reserve = reserve,
                          !.trades[c.trade].planned_collateral_allocation = allocation,
                          !.trades[c.trade].planned_collateral_consumption = consumption]
        fn == loan_function_of(L1.positions[c.position], L1.trades[c.trade])
        r == call_loan_function(fn, L1.positions[c.position], L1.trades[c.trade], "plan")
    IN  [L |-> IF r.err # NoErr THEN L1
               ELSE [loan_in_place(L1, c.position, fn, r) EXCEPT
                       !.trades[c.trade].planned_loan_update = r.loan],
         fn |-> fn, r |-> r, position |-> c.position, trade |-> c.trade]

\* The execution of a planned trade that fills filled of its quantity: the trade
\* is broadcast and succeeds, its executed loan comes from the loan function in
\* mode execute, and becomes the position's; for credit supply it is the planned
\* loan, which is the very loan of the position once the position has one
execute_loan_trade(L, tid, filled) ==
    LET t == L.trades[tid]
        executed_quantity == IF t.planned_quantity < 0 THEN -filled ELSE filled
        L1 == [L EXCEPT
                 !.trades[tid].started_at = TRUE,
                 !.trades[tid].broadcasted_at = TRUE,
                 !.trades[tid].executed_at = TRUE,
                 !.trades[tid].executed_price = t.planned_price,
                 !.trades[tid].executed_quantity = executed_quantity,
                 !.trades[tid].executed_reserve = t.planned_reserve,
                 !.trades[tid].executed_collateral_allocation =
                     t.planned_collateral_allocation,
                 !.trades[tid].executed_collateral_consumption =
                     IF t.planned_collateral_consumption = 0 THEN 0
                     ELSE -executed_quantity]
        position == L1.positions[t.position_id]
        fn == IF is_short(t)
              THEN IF position.trades[1] = tid THEN "create_short_loan"
                   ELSE "update_short_loan"
              ELSE "planned_loan_update"
        r == IF is_short(t) THEN call_loan_function(fn, position, L1.trades[tid], "execute")
             ELSE [loan |-> IF position.loan # NoLoan THEN position.loan
                            ELSE t.planned_loan_update,
                   err |-> NoErr, checked |-> FALSE]
    IN  [L |-> IF r.err # NoErr THEN L1
               ELSE [L1 EXCEPT !.trades[tid].executed_loan_update = r.loan,
                               !.positions[t.position_id].loan = r.loan],
         fn |-> fn, r |-> r, position |-> t.position_id, trade |-> tid]

InitLoans ==
    LET funded == process_deposit(EmptyLedger, FundingDeposit(MaxAmount * MaxTrades))
    IN  /\ chain = <<>>
        /\ deployment = Deployed(DeploymentBlock)
        /\ last_block_scanned = DeploymentBlock
        /\ processed_events = {funded.out[1]}
        /\ SetLedgerInit(funded.L)
        /\ last_call = [op |-> "init", err |-> NoErr]
        /\ calls = MaxCalls - MaxLoanCalls
        /\ interest_sync = NoInterestSync
        /\ files = NoFiles

\* The pairs of the loan positions
LoanPairs == {CreditAsset, ShortAsset}

\* What is recorded of a call of a loan function
LoanCall(op, g, mode) ==
    [op |-> op, fn |-> g.fn, position_id |-> g.position, trade_id |-> g.trade,
     mode |-> mode, ret |-> g.r.loan, checked |-> g.r.checked, err |-> g.r.err]

\* What a short trade puts up as collateral: reserve currency, collateral
\* allocated from the position, or nothing
CollateralContributions ==
    {[reserve |-> 1, allocation |-> 0], [reserve |-> 0, allocation |-> 1],
     [reserve |-> 0, allocation |-> 0]}

\* The strategy plans a credit supply or short trade
OpenLoanTrade ==
    /\ Len(trades) < MaxTrades
    /\ \E pair \in LoanPairs, quantity \in (-MaxQuantity..MaxQuantity) \ {0},
          contribution \in CollateralContributions, consume \in BOOLEAN :
          LET g == open_loan_trade(Ledger, pair, quantity,
                      IF pair = ShortAsset THEN contribution.reserve
                      ELSE IF quantity > 0 THEN quantity ELSE 0,
                      IF pair = ShortAsset THEN contribution.allocation ELSE 0,
                      IF pair = ShortAsset /\ consume THEN -quantity ELSE 0)
          IN  /\ pair = CreditAsset => (contribution.reserve = 1 /\ ~consume)
              /\ SetLedger(g.L)
              /\ last_call' = LoanCall("open_trade", g, "plan")
    /\ UnchangedSync
    /\ Counted

\* A planned trade whose planning gave a loan is executed
ExecuteLoanTrade ==
    /\ \E tid \in 1..Len(trades) :
          /\ get_status(trades[tid]) = "planned"
          /\ trades[tid].planned_loan_update # NoLoan
          /\ \E filled \in 1..Abs(trades[tid].planned_quantity) :
                LET g == execute_loan_trade(Ledger, tid, filled)
                IN  /\ SetLedger(g.L)
                    /\ last_call' = LoanCall("execute_trade", g, "execute")
    /\ UnchangedSync
    /\ Counted

\* A loan function is called on a position and its last trade
CallLoanFunction ==
    /\ \E fn \in {"create_short_loan", "update_short_loan",
                   "create_credit_supply_loan", "update_credit_supply_loan"},
          pid \in 1..Len(positions) :
          LET tid == positions[pid].trades[Len(positions[pid].trades)]
              r == call_loan_function(fn, positions[pid], trades[tid], "plan")
          IN  /\ SetLedger(loan_in_place(Ledger, pid, fn, r))
              /\ last_call' = LoanCall(fn, [fn |-> fn, r |-> r, position |-> pid,
                                            trade |-> tid], "plan")
    /\ UnchangedSync
    /\ Counted

NextLoans ==
    \/ OpenLoanTrade
    \/ ExecuteLoanTrade
    \/ CallLoanFunction

LoanSpec == InitLoans /\ [][NextLoans]_vars

(***************************************************************************)
(* The treasury sync of a deployed vault whose deposits may be denominated *)
(* in another asset than the one of the first deposit                      *)
(***************************************************************************)

\* Another asset a deposit may be denominated in
ForeignAsset == "DAI"

InitDenomination ==
    /\ chain = <<>>
    /\ deployment = Deployed(DeploymentBlock)
    /\ last_block_scanned = 0
    /\ processed_events = {}
    /\ SetLedgerInit(EmptyLedger)
    /\ last_call = [op |-> "init", err |-> NoErr]
    /\ calls = 1
    /\ interest_sync = NoInterestSync
    /\ files = NoFiles

\* A block with a deposit denominated in the other asset is mined, and synced
SyncForeignDeposit ==
    /\ Len(chain) < MaxBlocks
    /\ \E amount \in 1..MaxAmount :
          chain' = Append(chain, [kind |-> "deposit", tx |-> DeploymentBlock + Len(chain) + 1,
                                  items |-> <<[asset |-> ForeignAsset, amount |-> amount]>>])
    /\ sync_treasury
    /\ UNCHANGED <<interest_sync, files>>
    /\ Counted

NextDenomination ==
    \/ SyncTreasury
    \/ SyncForeignDeposit

DenominationSpec == InitDenomination /\ [][NextDenomination]_vars

(***************************************************************************)
(* Repairs of a portfolio with broken trades in open, frozen and closed    *)
(* positions                                                               *)
(***************************************************************************)

\* The calls of a run of the repair engine
MaxRepairCalls == 3

\* How a trade of the initial portfolio is broken: broadcast and never resolved,
\* or resolved as failed
BrokenKinds == {"broadcasted", "failed"}

\* A trade of the pair that was started, signed and broadcast, and is left
\* unresolved or was marked failed
BrokenTrade(L, quantity, kind) ==
    LET c == create_trade(L, "WETH", quantity, 1, "rebalance", 0)
        b == mark_broadcasted(setup_trades(start_execution(c.L, c.trade).L, <<c.trade>>),
                              c.trade)
    IN  [L |-> IF kind = "failed" THEN mark_trade_failed(b, c.trade) ELSE b,
         trade |-> c.trade]

\* The first position: a buy of MaxQuantity, a broken sell, and then nothing
\* more, a second broken sell, or a sell of everything that closes the position
FirstPosition(L, kind, then) ==
    LET sold == BrokenTrade(OpenedPosition(L, "WETH", MaxQuantity), -1, kind).L
    IN  IF then = "closed" THEN create_and_execute(sold, "WETH", -MaxQuantity, 1, 1, 1).L
        ELSE IF then = "broken" THEN BrokenTrade(sold, -1, kind).L
        ELSE sold

\* The second position, opened after the first was closed: a broken buy, and the
\* position left open or frozen
SecondPosition(L, kind, frozen) ==
    LET b == BrokenTrade(L, 1, kind)
    IN  IF frozen THEN freeze_position_on_failed_trade(b.L, <<b.trade>>) ELSE b.L

\* The portfolios the repair engine is run on
RepairLedgers ==
    LET funded == process_deposit(EmptyLedger, FundingDeposit(MaxQuantity + 1)).L
    IN  {FirstPosition(funded, kind, then) : kind \in BrokenKinds, then \in {"none", "broken", "closed"}}
        \cup {SecondPosition(FirstPosition(funded, k1, "closed"), k2, frozen) :
                 k1 \in BrokenKinds, k2 \in BrokenKinds, frozen \in BOOLEAN}

InitRepair ==
    \E L \in RepairLedgers :
        /\ chain = <<>>
        /\ deployment = Deployed(DeploymentBlock)
        /\ last_block_scanned = DeploymentBlock
        /\ processed_events = {process_deposit(EmptyLedger, FundingDeposit(MaxQuantity + 1)).out[1]}
        /\ SetLedgerInit(L)
        /\ last_call = [op |-> "init", err |-> NoErr]
        /\ calls = MaxCalls - MaxRepairCalls
        /\ interest_sync = NoInterestSync
        /\ files = NoFiles

\* find_trades_to_be_repaired on the state as it is
FindTradesToBeRepaired ==
    /\ last_call' = [op |-> "find_trades_to_be_repaired",
                     ret |-> find_trades_to_be_repaired(Ledger), err |-> NoErr]
    /\ PortfolioUnchanged
    /\ UnchangedSync
    /\ Counted

NextRepair ==
    \/ FindTradesToBeRepaired
    \/ RepairTrades
    \/ FreezePositionOnFailedTrade

RepairSpec == InitRepair /\ [][NextRepair]_vars

(***************************************************************************)
(* Treasury syncs under chain reorganisations                              *)
(***************************************************************************)

\* Where a call may detect a reorganisation: in process_blocks, or in the reader
\* before the first event or after it has yielded events of the window
Reorgs ==
    {[by |-> "process_blocks", after |-> 0]}
    \cup {[by |-> "reader", after |-> k] : k \in 0..(MaxBlocks - 1)}

\* A sync call during which the monitor detects a reorganisation
SyncTreasuryReorg ==
    /\ \E n \in 0..(MaxBlocks - Len(chain)) :
          \E blocks \in MinedBlocks(chain, n) : chain' = blocks
    /\ \E reorg \in Reorgs :
          /\ reorg.by = "reader" =>
                reorg.after < Len(events_in(chain', start_block_of(last_block_scanned),
                                            DeploymentBlock + Len(chain')))
          /\ sync_treasury_reading(reorg)
    /\ UNCHANGED <<interest_sync, files>>
    /\ Counted

NextReorg ==
    \/ SyncTreasury
    \/ SyncTreasuryReorg

ReorgSpec == InitDenomination /\ [][NextReorg]_vars

(***************************************************************************)
(* Properties                                                              *)
(***************************************************************************)

\* Sum of all position quantities + reserve quantity
TotalOf(ps, rs) ==
    SumSeq([i \in 1..Len(ps) |-> ps[i].quantity])
    + SumOver([a \in DOMAIN rs |-> rs[a].quantity], DOMAIN rs)

\* The trades the step marks successful
NewlySuccessful ==
    {i \in 1..Len(trades') :
        trades'[i].executed_at /\ (i <= Len(trades) => ~trades[i].executed_at)}

\* The buys the step allocates capital to
NewlyAllocated ==
    {i \in 1..Len(trades') :
        /\ is_buy(trades'[i])
        /\ trades'[i].started_at
        /\ (i <= Len(trades) => ~trades[i].started_at)}

\* What the successful trades of the step add to the position and to the reserve
SuccessDelta ==
    SumOver([i \in NewlySuccessful |->
               trades'[i].executed_quantity
               + (IF is_sell(trades'[i]) THEN trades'[i].executed_reserve ELSE 0)],
            NewlySuccessful)

AllocatedDelta ==
    SumOver([i \in NewlyAllocated |-> trades'[i].planned_reserve], NewlyAllocated)

\* The deposits and redemptions the step applies to a quantity
SyncDelta ==
    IF last_call'.op = "sync_treasury" THEN SumSeq(last_call'.applied) ELSE 0

TotalDelta == TotalOf(positions', reserves') - TotalOf(positions, reserves)

QuantitiesUnchanged ==
    /\ DOMAIN reserves' = DOMAIN reserves
    /\ \A a \in DOMAIN reserves : reserves'[a].quantity = reserves[a].quantity
    /\ Len(positions') = Len(positions)
    /\ \A p \in 1..Len(positions) : positions'[p].quantity = positions[p].quantity

\* The reader returns an event that processed_events records already
ReplayedIn(window) ==
    \E k \in 1..Len(window) :
        \E old \in processed_events :
            old.tx = window[k].tx /\ old.type = window[k].kind

\* C2 as stated: when the reader returns an event already recorded in
\* processed_events again, sync_treasury fails and the reserve and position
\* quantities equal their values before the call
C2_NoDoubleApplication ==
    [][(last_call'.op = "sync_treasury" /\ ReplayedIn(last_call'.window)) =>
          /\ last_call'.err # NoErr
          /\ QuantitiesUnchanged]_vars

\* C3: a sync_treasury call on a chain whose head the previous call has scanned,
\* with no new event, returns an empty list and leaves last_block_scanned, all
\* quantities, processed_events and next_balance_update_id unchanged
C3_IdempotentSync ==
    [][(/\ last_call'.op = "sync_treasury"
        /\ initialised
        /\ chain' = chain
        /\ last_block_scanned = DeploymentBlock + Len(chain)) =>
          /\ last_call'.err = NoErr
          /\ last_call'.ret = <<>>
          /\ last_block_scanned' = last_block_scanned
          /\ QuantitiesUnchanged
          /\ processed_events' = processed_events
          /\ next_balance_update_id' = next_balance_update_id]_vars

\* C3 witness: a second sync call after a call that recorded events: its window
\* is empty
C3_Witness ==
    /\ last_call.op = "sync_treasury"
    /\ last_call.err = NoErr
    /\ last_call.start_block > last_call.end_block
    /\ processed_events # {}

\* The place of a status in planned -> capital_allocated (started) -> broadcasted
\* -> (success | failed) -> repaired
StatusRank(status) ==
    CASE status = "planned" -> 0
      [] status = "started" -> 1
      [] status = "broadcasted" -> 2
      [] status = "success" -> 3
      [] status = "failed" -> 3
      [] status = "repaired" -> 4

\* The status of trade i after the step follows its status before the step
MovesForward(i) ==
    /\ StatusRank(get_status(trades'[i])) >= StatusRank(get_status(trades[i]))
    /\ is_success(trades[i]) => is_success(trades'[i])
    /\ is_failed(trades[i]) => get_status(trades'[i]) \in {"failed", "repaired"}

\* C4 as stated: the status of a trade only moves forward along the life cycle,
\* never reaches success or failed without the trade having been broadcasted, and
\* never leaves success
C4_LifecycleOrder ==
    [][\A i \in 1..Len(trades') :
          /\ get_status(trades'[i]) \in {"success", "failed"} =>
                 trades'[i].broadcasted_at
          /\ i <= Len(trades) => MovesForward(i)]_vars

\* C4 amended: the status of a trade that is not a repair counter trade only
\* moves forward along the life cycle, reaches success, failed or repaired only
\* after the trade has been broadcasted, and never leaves success; a repair
\* counter trade is in status success from its creation on, without a broadcast
C4_LifecycleOrderOfStrategyTrades ==
    [][\A i \in 1..Len(trades') :
          /\ trades'[i].trade_type # "repair" =>
                 (get_status(trades'[i]) \in {"success", "failed", "repaired"} =>
                      trades'[i].broadcasted_at)
          /\ trades'[i].trade_type = "repair" =>
                 (is_success(trades'[i]) /\ ~trades'[i].broadcasted_at)
          /\ i <= Len(trades) => MovesForward(i)]_vars

\* C4 witness: a trade of the strategy has gone from planned to failed and on to
\* repaired, and its counter trade is there
C4_Witness ==
    \E i \in StrategyTrades :
        /\ get_status(trades[i]) = "repaired"
        /\ trades[i].failed_at
        /\ \E c \in 1..Len(trades) : trades[c].repaired_trade_id = i

\* A transaction of the trade is confirmed as reverted
Reverted(t) ==
    \E j \in 1..Len(t.blockchain_transactions) :
        t.blockchain_transactions[j].status = "reverted"

InFrozen(frozen, pid) == \E k \in 1..Len(frozen) : frozen[k] = pid

\* C5 as stated: when a transaction of a trade is confirmed as reverted, the
\* trade becomes failed and, by the end of the call, its position is in
\* frozen_positions and no longer in open_positions
C5_RevertFreezes ==
    [][\A i \in 1..Len(trades) :
          (Reverted(trades'[i]) /\ ~Reverted(trades[i])) =>
              /\ is_failed(trades'[i])
              /\ InFrozen(frozen_positions', trades'[i].position_id)
              /\ trades'[i].position_id \notin open_positions']_vars

\* C6 as stated: when broadcast_and_resolve has broadcast the trades and gets no
\* confirmation within the timeout, it returns without raising, and every trade
\* of the batch is broadcasted with its position not frozen
C6_TimeoutIsAState ==
    [][(/\ last_call'.op = "broadcast_and_resolve"
        /\ last_call'.node_ok
        /\ ~last_call'.confirmed
        /\ \A k \in 1..Len(last_call'.batch) :
              trades'[last_call'.batch[k]].broadcasted_at) =>
          /\ last_call'.err = NoErr
          /\ \A k \in 1..Len(last_call'.batch) :
                /\ get_status(trades'[last_call'.batch[k]]) = "broadcasted"
                /\ ~InFrozen(frozen_positions',
                             trades'[last_call'.batch[k]].position_id)]_vars

\* The deltas of the balance updates applied to position pid
BalanceUpdateDeltas(pid, events) ==
    LET mine == {e \in events : e.position_type = "open_position" /\ e.position_id = pid}
    IN SumOver([e \in mine |-> e.new_quantity - e.past_quantity], mine)

\* C7 as stated: the quantity of a position equals the sum of the executed
\* quantities of its trades in status success plus the deltas of the balance
\* updates applied to it
C7_PositionQuantityInvariant ==
    \A p \in 1..Len(positions) :
        positions[p].quantity =
            SumSeq([k \in 1..Len(positions[p].trades) |->
                      IF is_success(trades[positions[p].trades[k]])
                      THEN trades[positions[p].trades[k]].executed_quantity
                      ELSE 0])
            + BalanceUpdateDeltas(p, processed_events)

\* The step is a repair_trades call that goes on to repair_trade
Repairs ==
    /\ last_call'.op = "repair_trades"
    /\ last_call'.attempt_repair
    /\ last_call'.interactive => lower(last_call'.confirmation) = "y"
    /\ last_call'.trades_needing_repair # <<>>

\* C8: after repair_trade on a trade t with non-zero planned quantity,
\* t.repaired_at is set, the status of t is repaired, t.get_value() is 0 and
\* t.get_position_quantity() is 0
C8_RepairZeroing ==
    [][Repairs =>
          /\ last_call'.err = NoErr
          /\ \A k \in 1..Len(last_call'.trades_needing_repair) :
                LET t == trades'[last_call'.trades_needing_repair[k]]
                IN t.planned_quantity # 0 =>
                      /\ t.repaired_at
                      /\ get_status(t) = "repaired"
                      /\ get_value(t) = 0
                      /\ get_position_quantity(t) = 0]_vars

\* C8 witness: a repair run has repaired a failed trade
C8_Witness ==
    /\ last_call.op = "repair_trades"
    /\ last_call.new_trades # <<>>
    /\ \E k \in 1..Len(last_call.trades_needing_repair) :
          /\ trades[last_call.trades_needing_repair[k]].failed_at
          /\ trades[last_call.trades_needing_repair[k]].repaired_at

\* The quantity of a position computed from its trades and balance updates, with
\* the trades in ignored left out
AggregateQuantity(position, ts, events, ignored) ==
    SumSeq([k \in 1..Len(position.trades) |->
              IF position.trades[k] \in ignored THEN 0
              ELSE get_position_quantity(ts[position.trades[k]])])
    + BalanceUpdateDeltas(position.position_id, events)

\* C9: after repair_trade(t) the quantity of the position is what it was, and
\* the quantity computed from its trades and balance updates equals the one
\* computed with t ignored, before and after the repair; the counter trade has
\* planned quantity -t.planned_quantity and contributes 0 quantity and 0 value
C9_RepairNetsToZero ==
    [][Repairs =>
          LET repaired == {last_call'.trades_needing_repair[k] :
                              k \in 1..Len(last_call'.trades_needing_repair)}
          IN /\ Len(last_call'.new_trades) = Len(last_call'.trades_needing_repair)
             /\ Len(positions') = Len(positions)
             /\ \A p \in 1..Len(positions) :
                   /\ positions'[p].quantity = positions[p].quantity
                   /\ AggregateQuantity(positions'[p], trades', processed_events', {})
                        = AggregateQuantity(positions'[p], trades', processed_events',
                                            repaired)
                   /\ AggregateQuantity(positions'[p], trades', processed_events', {})
                        = AggregateQuantity(positions[p], trades, processed_events,
                                            repaired)
             /\ \A k \in 1..Len(last_call'.new_trades) :
                   LET c == trades'[last_call'.new_trades[k]]
                       t == trades[last_call'.trades_needing_repair[k]]
                   IN /\ c.planned_quantity = -t.planned_quantity
                      /\ get_position_quantity(c) = 0
                      /\ get_value(c) = 0]_vars

\* C9 witness: a repair run has repaired a broadcasted buy on a position that
\* holds tokens
C9_Witness ==
    /\ last_call.op = "repair_trades"
    /\ last_call.new_trades # <<>>
    /\ \E k \in 1..Len(last_call.trades_needing_repair) :
          LET t == trades[last_call.trades_needing_repair[k]]
          IN /\ ~t.failed_at
             /\ t.planned_quantity > 0
             /\ positions[t.position_id].quantity > 0

\* C10: repair_trades(attempt_repair=True, interactive=False) returns one counter
\* trade for each trade needing repair, in the same order; the counter trade is a
\* new trade of the position of its original, no position is created, it has type
\* repair, planned quantity -t.planned_quantity, price t.planned_price, status
\* success and repaired_trade_id the id of the original, and the original stays
\* in the trade collection of the position
C10_OneCounterTradePerBrokenTrade ==
    [][(/\ last_call'.op = "repair_trades"
        /\ last_call'.attempt_repair
        /\ ~last_call'.interactive) =>
          LET needing == last_call'.trades_needing_repair
              new_trades == last_call'.new_trades
          IN /\ last_call'.err = NoErr
             /\ Len(new_trades) = Len(needing)
             /\ Len(trades') = Len(trades) + Len(needing)
             /\ Len(positions') = Len(positions)
             /\ \A k \in 1..Len(needing) :
                   LET c == trades'[new_trades[k]]
                       t == trades[needing[k]]
                       in_position(tid) ==
                           \E j \in 1..Len(positions'[t.position_id].trades) :
                               positions'[t.position_id].trades[j] = tid
                   IN /\ new_trades[k] > Len(trades)
                      /\ \A j \in 1..Len(needing) : j # k => new_trades[j] # new_trades[k]
                      /\ c.position_id = t.position_id
                      /\ in_position(new_trades[k])
                      /\ in_position(needing[k])
                      /\ c.trade_type = "repair"
                      /\ c.planned_quantity = -t.planned_quantity
                      /\ c.planned_price = t.planned_price
                      /\ is_success(c)
                      /\ c.repaired_trade_id = needing[k]]_vars

\* C10 witness: a non-interactive repair run has made the counter trades of two
\* broken trades
C10_Witness ==
    /\ last_call.op = "repair_trades"
    /\ ~last_call.interactive
    /\ Len(last_call.new_trades) = 2

\* A trade of position pid needs repair in the trade collection ts
NeedsRepairIn(ps, ts, pid) ==
    \E k \in 1..Len(ps[pid].trades) : is_repair_needed(ts[ps[pid].trades[k]])

BrokenTrades ==
    {i \in 1..Len(trades) :
        /\ is_repair_needed(trades[i])
        /\ \/ trades[i].position_id \in open_positions
           \/ InFrozen(frozen_positions, trades[i].position_id)}

\* C12: repair_trades with attempt_repair=False changes nothing in the state and
\* returns new_trades and unfrozen_positions empty, the frozen positions, and
\* each trade needing repair of the open and frozen positions once
C12_DryRun ==
    [][(last_call'.op = "repair_trades" /\ ~last_call'.attempt_repair) =>
          /\ last_call'.err = NoErr
          /\ PortfolioUnchanged
          /\ UnchangedSync
          /\ last_call'.new_trades = <<>>
          /\ last_call'.unfrozen_positions = <<>>
          /\ last_call'.frozen_positions = frozen_positions
          /\ {last_call'.trades_needing_repair[k] :
                 k \in 1..Len(last_call'.trades_needing_repair)} = BrokenTrades
          /\ Len(last_call'.trades_needing_repair) = Cardinality(BrokenTrades)]_vars

\* C12 witness: a dry run has reported a frozen position and a trade needing
\* repair
C12_Witness ==
    /\ last_call.op = "repair_trades"
    /\ ~last_call.attempt_repair
    /\ last_call.frozen_positions # <<>>
    /\ last_call.trades_needing_repair # <<>>

\* The step is an interactive repair_trades call that has a trade to repair
AsksOperator ==
    /\ last_call'.op = "repair_trades"
    /\ last_call'.attempt_repair
    /\ last_call'.interactive
    /\ last_call'.trades_needing_repair # <<>>

\* C13 as stated: an interactive repair run with a trade needing repair raises
\* RepairAborted and leaves the state as it was on any answer other than "y",
\* and changes the state only on the answer "y"
C13_ConfirmationGate ==
    [][AsksOperator =>
          IF last_call'.confirmation = "y"
          THEN last_call'.err = NoErr
          ELSE /\ last_call'.err = "RepairAborted"
               /\ PortfolioUnchanged
               /\ UnchangedSync]_vars

\* C13 amended: the answer is lowercased before it is compared: an interactive
\* repair run with a trade needing repair raises RepairAborted and leaves the
\* state as it was on any answer that is not "y" or "Y", and repairs on "y" and
\* on "Y"
C13_ConfirmationGateLowercased ==
    [][AsksOperator =>
          IF last_call'.confirmation \in {"y", "Y"}
          THEN /\ last_call'.err = NoErr
               /\ Len(last_call'.new_trades) = Len(last_call'.trades_needing_repair)
          ELSE /\ last_call'.err = "RepairAborted"
               /\ last_call'.new_trades = <<>>
               /\ PortfolioUnchanged
               /\ UnchangedSync]_vars

\* C13 witness: the operator has answered "Y" and the run has repaired a trade
C13_Witness ==
    /\ last_call.op = "repair_trades"
    /\ last_call.interactive
    /\ last_call.confirmation = "Y"
    /\ last_call.new_trades # <<>>

\* The step is a broadcast_and_resolve call that got the receipts of its batch
Resolves ==
    /\ last_call'.op = "broadcast_and_resolve"
    /\ last_call'.confirmed

\* No receipt has been written on the transactions of the trade
Unresolved(t) ==
    /\ get_status(t) = "broadcasted"
    /\ \A j \in 1..Len(t.blockchain_transactions) :
          t.blockchain_transactions[j].status = "signed"

\* C14: when a trade of a resolved batch has a reverted transaction, the trade is
\* recorded as failed; with stop_on_execution_failure set the call raises
\* TradeExecutionFailed and no later trade of the batch is resolved; with it
\* unset the call does not raise and every trade of the batch is resolved
C14_FailFastSwitch ==
    [][Resolves =>
          \A k \in 1..Len(last_call'.batch) :
              Reverted(trades'[last_call'.batch[k]]) =>
                  /\ is_failed(trades'[last_call'.batch[k]])
                  /\ IF last_call'.stop_on_execution_failure
                     THEN /\ last_call'.err = "TradeExecutionFailed"
                          /\ \A j \in (k + 1)..Len(last_call'.batch) :
                                Unresolved(trades'[last_call'.batch[j]])
                     ELSE /\ last_call'.err = NoErr
                          /\ \A j \in 1..Len(last_call'.batch) :
                                get_status(trades'[last_call'.batch[j]])
                                    \in {"success", "failed"}]_vars

\* C14 witness: the first trade of a batch of two has reverted with the switch
\* set, and the second trade is left unresolved
C14_Witness ==
    /\ last_call.op = "broadcast_and_resolve"
    /\ last_call.stop_on_execution_failure
    /\ last_call.err = "TradeExecutionFailed"
    /\ Len(last_call.batch) = 2
    /\ Reverted(trades[last_call.batch[1]])
    /\ Unresolved(trades[last_call.batch[2]])

\* The balance updates of the reserve position that sync_treasury has recorded
ReserveUpdates == {e \in processed_events : e.position_type = "reserve"}

\* The amount the chain event behind a balance update moves: positive for a
\* deposit, negative for a redemption
EventAmount(e) ==
    LET ev == CHOOSE ev \in {chain[i] : i \in 1..Len(chain)} :
                  ev.tx = e.tx /\ ev.kind = e.type
        item == CHOOSE it \in {ev.items[j] : j \in 1..Len(ev.items)} :
                    it.asset = e.asset
    IN IF e.type = "deposit" THEN item.amount ELSE -item.amount

\* C15 as stated: as long as no trade has been made, the reserve quantity is the
\* sum of the deposited amounts minus the sum of the redeemed reserve amounts of
\* the balance updates of the reserve, each balance update has new quantity =
\* past quantity plus or minus the amount of its event, and the balance_updates
\* list of the reserve position has exactly one id for each of them
C15_TreasuryAccounting ==
    trades = <<>> =>
        /\ \A e \in ReserveUpdates : e.new_quantity = e.past_quantity + EventAmount(e)
        /\ IF ReserveAsset \in DOMAIN reserves
           THEN /\ reserves[ReserveAsset].quantity =
                      SumOver([e \in ReserveUpdates |-> EventAmount(e)], ReserveUpdates)
                /\ Len(reserves[ReserveAsset].balance_updates) =
                      Cardinality(ReserveUpdates)
                /\ {reserves[ReserveAsset].balance_updates[k] :
                       k \in 1..Len(reserves[ReserveAsset].balance_updates)} =
                      {e.balance_update_id : e \in ReserveUpdates}
           ELSE ReserveUpdates = {}

\* The redeemed assets of the events of a window, in the order sync_treasury
\* comes to them; a deposit counts as one asset
WindowAssets(window) ==
    Flatten([k \in 1..Len(window) |->
               [j \in 1..Len(window[k].items) |->
                  [kind |-> window[k].kind, asset |-> window[k].items[j].asset]]])

\* A redeemed asset that is neither the reserve asset nor the asset of an open
\* position
UnknownAt(assets, i) ==
    /\ assets[i].kind = "redemption"
    /\ assets[i].asset # ReserveAsset
    /\ \A p \in open_positions : positions[p].pair # assets[i].asset

\* The step is a sync_treasury call whose window has such an asset
ReadsUnknownAsset ==
    /\ last_call'.op = "sync_treasury"
    /\ initialised
    /\ \E i \in 1..Len(WindowAssets(last_call'.window)) :
          UnknownAt(WindowAssets(last_call'.window), i)

\* C16 as stated: when a redemption event of the window has an asset that is
\* neither the reserve asset nor the asset of an open position, sync_treasury
\* raises UnknownAsset, returns no BalanceUpdate and records none
C16_UnknownAssetRaises ==
    [][ReadsUnknownAsset =>
          /\ last_call'.err = "UnknownAsset"
          /\ last_call'.ret = <<>>
          /\ processed_events' = processed_events]_vars

\* C16 amended: such a call always raises, returns no BalanceUpdate, records
\* none and does not advance last_block_scanned; it raises UnknownAsset when it
\* comes to the asset, having applied every asset before it, unless a redemption
\* before it in the window has already raised AssertionError by leaving a
\* quantity that is not positive
C16_UnknownAssetIsHardError ==
    [][ReadsUnknownAsset =>
          LET assets == WindowAssets(last_call'.window)
              first == CHOOSE i \in 1..Len(assets) :
                           /\ UnknownAt(assets, i)
                           /\ \A j \in 1..(i - 1) : ~UnknownAt(assets, j)
          IN /\ last_call'.err \in {"UnknownAsset", "AssertionError"}
             /\ last_call'.ret = <<>>
             /\ processed_events' = processed_events
             /\ last_block_scanned' = last_block_scanned
             /\ last_call'.err = "UnknownAsset" =>
                    Len(last_call'.applied) = first - 1
             /\ last_call'.err = "AssertionError" =>
                    /\ Len(last_call'.applied) \in 1..(first - 1)
                    /\ assets[Len(last_call'.applied)].kind = "redemption"]_vars

\* C16 witness: a sync call has raised UnknownAsset on a redemption that also
\* takes from the reserve
C16_Witness ==
    /\ last_call.op = "sync_treasury"
    /\ last_call.err = "UnknownAsset"
    /\ last_call.applied # <<>>


(***************************************************************************)
(* C17: balance update ids                                                 *)
(***************************************************************************)

\* C17: over the deposits, redemptions and interest updates of a run, the
\* BalanceUpdate records kept in the state (the processed treasury events and the
\* interest events of the positions) have ids that differ from one another, the
\* ids a call gives to its updates go strictly upwards in the order it applies
\* them and start at the value next_balance_update_id had before the call, the
\* balance_updates list of every reserve and position goes strictly upwards, and
\* next_balance_update_id never goes down and is greater than every id handed out.
C17_BalanceUpdateIds ==
    [][LET StrictlyIncreasing(ids) ==
               \A i \in 1..Len(ids) : \A j \in 1..Len(ids) : i < j => ids[i] < ids[j]
           KeptUpdates ==
               processed_events'
               \cup UNION {{positions'[p].balance_update_events[i] :
                               i \in 1..Len(positions'[p].balance_update_events)} :
                             p \in 1..Len(positions')}
           ListedIds ==
               UNION {{reserves'[a].balance_updates[i] :
                          i \in 1..Len(reserves'[a].balance_updates)} :
                        a \in DOMAIN reserves'}
               \cup UNION {{positions'[p].balance_updates[i] :
                               i \in 1..Len(positions'[p].balance_updates)} :
                             p \in 1..Len(positions')}
           ReturnedIds ==
               IF last_call'.op \in {"sync_treasury", "update_interest"}
               THEN [i \in 1..Len(last_call'.ret) |-> last_call'.ret[i].balance_update_id]
               ELSE <<>>
       IN  /\ next_balance_update_id' >= next_balance_update_id
           /\ \A u \in KeptUpdates :
                 /\ u.balance_update_id < next_balance_update_id'
                 /\ \A v \in KeptUpdates :
                       u.balance_update_id = v.balance_update_id => u = v
           /\ \A id \in ListedIds : id < next_balance_update_id'
           /\ \A a \in DOMAIN reserves' : StrictlyIncreasing(reserves'[a].balance_updates)
           /\ \A p \in 1..Len(positions') :
                 StrictlyIncreasing(positions'[p].balance_updates)
           /\ StrictlyIncreasing(ReturnedIds)
           /\ \A i \in 1..Len(ReturnedIds) :
                 /\ ReturnedIds[i] >= next_balance_update_id
                 /\ ReturnedIds[i] < next_balance_update_id'
      ]_vars

\* C17 witness: a sync call has applied a redemption after an interest update
\* that came after a synced deposit: the id of the interest update lies between
\* the ids of the deposit and of the redemption
C17_Witness ==
    /\ last_call.op = "sync_treasury"
    /\ last_call.err = NoErr
    /\ \E d \in processed_events, r \in processed_events, p \in 1..Len(positions) :
          \E i \in 1..Len(positions[p].balance_update_events) :
             /\ d.type = "deposit"
             /\ r.type = "redemption"
             /\ d.balance_update_id > FirstBalanceUpdateId
             /\ d.balance_update_id < positions[p].balance_update_events[i].balance_update_id
             /\ positions[p].balance_update_events[i].balance_update_id < r.balance_update_id
             /\ \E k \in 1..Len(last_call.ret) : last_call.ret[k] = r

(***************************************************************************)
(* C18: nonce uniqueness in a broadcast batch                              *)
(***************************************************************************)

\* C18: the transactions of a batch that broadcast() submits have nonces that
\* differ from one another; when a transaction of the batch has a nonce that an
\* earlier transaction of the batch has, broadcast() raises, the trade of the
\* first such transaction and the trades after it are left as they were, and no
\* transaction of the batch is submitted.
C18_NonceUniqueness ==
    [][last_call'.op = "broadcast_and_resolve" =>
         LET batch == last_call'.batch
             NoncesOf(i) ==
                 [j \in 1..Len(trades[batch[i]].blockchain_transactions) |->
                    trades[batch[i]].blockchain_transactions[j].nonce]
             Repeats(i, j) ==
                 \/ \E k \in 1..(j - 1) : NoncesOf(i)[k] = NoncesOf(i)[j]
                 \/ \E h \in 1..(i - 1) : \E k \in 1..Len(NoncesOf(h)) :
                       NoncesOf(h)[k] = NoncesOf(i)[j]
             HasRepeat(i) == \E j \in 1..Len(NoncesOf(i)) : Repeats(i, j)
         IN  /\ last_call'.submitted # <<>> =>
                   /\ last_call'.submitted = batch
                   /\ \A i \in 1..Len(batch) : ~HasRepeat(i)
             /\ (\E i \in 1..Len(batch) : HasRepeat(i)) =>
                   /\ last_call'.err = "AssertionError"
                   /\ last_call'.submitted = <<>>
                   /\ \A i \in 1..Len(batch) :
                         (\E h \in 1..i : HasRepeat(h)) =>
                             trades'[batch[i]] = trades[batch[i]]
      ]_vars

\* C18 witness: broadcast() has raised on a batch of two trades whose
\* transactions have the same nonce
C18_Witness ==
    /\ last_call.op = "broadcast_and_resolve"
    /\ last_call.err = "AssertionError"
    /\ last_call.submitted = <<>>
    /\ Len(last_call.batch) = 2
    /\ Len(trades[last_call.batch[1]].blockchain_transactions) = 1
    /\ Len(trades[last_call.batch[2]].blockchain_transactions) = 1
    /\ trades[last_call.batch[1]].blockchain_transactions[1].nonce
         = trades[last_call.batch[2]].blockchain_transactions[1].nonce

(***************************************************************************)
(* C19: broadcasted means submitted                                        *)
(***************************************************************************)

\* C19 as stated: a trade gets into status broadcasted only in a call that
\* submits its transactions to the network, and when broadcast() raises (a
\* repeated nonce, a trade without transactions, an error of the node) no trade
\* of the batch is in status broadcasted after the call.
C19_BroadcastedMeansSubmitted ==
    [][/\ \A i \in 1..Len(trades) :
             (get_status(trades'[i]) = "broadcasted"
              /\ get_status(trades[i]) # "broadcasted") =>
                 /\ last_call'.op = "broadcast_and_resolve"
                 /\ \E k \in 1..Len(last_call'.submitted) : last_call'.submitted[k] = i
       /\ (/\ last_call'.op = "broadcast_and_resolve"
           /\ broadcast(Ledger, last_call'.batch, last_call'.node_ok).err # NoErr) =>
              \A k \in 1..Len(last_call'.batch) :
                 get_status(trades'[last_call'.batch[k]]) # "broadcasted"
      ]_vars

(***************************************************************************)
(* C20: no double-spending of reserve                                      *)
(***************************************************************************)

\* C20 as stated: when prepare_swaps prepares a batch with the underflow check
\* on, the reserve goes down by the planned reserve of each buy trade it has
\* prepared, a sell trade has no reserve allocated, the reserve allocated to the
\* buy trades of the batch is in sum no more than the reserve there was before
\* the batch, and the reserve quantity is not negative after it.
C20_NoDoubleSpending ==
    [][(/\ last_call'.op = "prepare_swaps"
        /\ last_call'.underflow_check
        /\ ReserveAsset \in DOMAIN reserves) =>
         LET batch == last_call'.batch
             Buys == {k \in 1..Len(batch) : is_buy(trades[batch[k]])}
             Prepared == {k \in 1..Len(batch) : trades'[batch[k]].started_at}
             before == reserves[ReserveAsset].quantity
         IN  /\ reserves'[ReserveAsset].quantity >= 0
             /\ before - reserves'[ReserveAsset].quantity
                  = SumOver([k \in Buys \cap Prepared |->
                               trades[batch[k]].planned_reserve], Buys \cap Prepared)
             /\ \A k \in Prepared \ Buys :
                   trades'[batch[k]].reserve_currency_allocated = 0
             /\ SumOver([k \in Buys |-> trades'[batch[k]].reserve_currency_allocated],
                        Buys) <= before
      ]_vars

\* C21: proportional interest distribution. When accrue_interest observes a
\* pooled balance of an asset above the tracked total, within the allowed gain,
\* every open or frozen position holding the asset gets exactly one BalanceUpdate
\* with cause interest, of quantity weight * (new_total - old_total); these
\* quantities sum to new_total - old_total, and each position's last_token_amount
\* grows by its share.
C21_ProportionalDistribution ==
    [][(last_call'.op = "accrue_interest") =>
         LET op == last_call'.distribution
             asset == last_call'.on_chain_balances[1].asset
             old_total == total_of(op.totals, asset)
             accrued == last_call'.on_chain_balances[1].balance - old_total
             holders == {i \in 1..Len(op.entries) : op.entries[i].asset = asset}
             share(i) == DecMul(accrued, op.entries[i].weight)
             added(i) == SubSeq(positions'[op.entries[i].position].balance_update_events,
                                Len(positions[op.entries[i].position].balance_update_events) + 1,
                                Len(positions'[op.entries[i].position].balance_update_events))
         IN  (accrued > 0 /\ DecDiv(accrued, old_total) <= last_call'.max_interest_gain)
             => /\ \A i \in holders :
                     /\ Len(added(i)) = 1
                     /\ added(i)[1].cause = "interest"
                     /\ added(i)[1].asset = asset
                     /\ added(i)[1].quantity = share(i)
                     /\ positions'[op.entries[i].position].loan.last_token_amount
                          = positions[op.entries[i].position].loan.last_token_amount
                            + share(i)
                /\ SumSeq([i \in 1..Len(op.entries) |->
                             IF i \in holders /\ Len(added(i)) = 1
                             THEN added(i)[1].quantity ELSE 0]) = accrued]_vars

\* C22 as stated: weight normalization. Every entry prepare_interest_distribution
\* returns weighs its tracked quantity over the total tracked quantity of its asset
\* in the open and frozen positions, every weight is in (0, 1], and the weights of
\* an asset sum to 1.
C22_WeightsSumToOne ==
    (last_call.op = "prepare_interest_distribution" /\ last_call.err = NoErr) =>
        LET op == last_call.ret
            held == {p \in open_positions \cup {frozen_positions[k] : k \in 1..Len(frozen_positions)} :
                        positions[p].loan # NoLoan}
            tracked(asset) == SumSeq([p \in 1..Len(positions) |->
                                  IF p \in held /\ positions[p].loan.collateral = asset
                                  THEN positions[p].loan.quantity ELSE 0])
        IN  \A asset \in op.assets :
               /\ \A i \in 1..Len(op.entries) :
                     op.entries[i].asset = asset =>
                        /\ op.entries[i].weight
                             = DecDiv(positions[op.entries[i].position].loan.quantity,
                                      tracked(asset))
                        /\ 0 < op.entries[i].weight /\ op.entries[i].weight <= One
               /\ SumSeq([i \in 1..Len(op.entries) |->
                            IF op.entries[i].asset = asset
                            THEN op.entries[i].weight ELSE 0]) = One

\* C22: weight normalization, with the rounding of the division. Every entry
\* prepare_interest_distribution returns weighs its tracked quantity over the
\* total tracked quantity of its asset in the open and frozen positions, every
\* weight is in (0, 1], and the weights of an asset sum to 1 up to half a unit
\* of the last decimal place per entry.
C22_WeightNormalization ==
    (last_call.op = "prepare_interest_distribution" /\ last_call.err = NoErr) =>
        LET op == last_call.ret
            held == {p \in open_positions \cup {frozen_positions[k] : k \in 1..Len(frozen_positions)} :
                        positions[p].loan # NoLoan}
            tracked(asset) == SumSeq([p \in 1..Len(positions) |->
                                  IF p \in held /\ positions[p].loan.collateral = asset
                                  THEN positions[p].loan.quantity ELSE 0])
            holders(asset) == {i \in 1..Len(op.entries) : op.entries[i].asset = asset}
        IN  \A asset \in op.assets :
               /\ \A i \in holders(asset) :
                     /\ op.entries[i].weight
                          = DecDiv(positions[op.entries[i].position].loan.quantity,
                                   tracked(asset))
                     /\ 0 < op.entries[i].weight /\ op.entries[i].weight <= One
               /\ 2 * Abs(SumSeq([i \in 1..Len(op.entries) |->
                                    IF i \in holders(asset)
                                    THEN op.entries[i].weight ELSE 0]) - One)
                    <= Cardinality(holders(asset))

\* C22 witness: a distribution of three entries was prepared whose weights are
\* rounded thirds, so that they sum to less than 1
C22_Witness ==
    /\ last_call.op = "prepare_interest_distribution"
    /\ last_call.err = NoErr
    /\ Len(last_call.ret.entries) = 3
    /\ last_call.ret.entries[1].weight = last_call.ret.entries[3].weight
    /\ last_call.ret.entries[1].weight + last_call.ret.entries[2].weight
         + last_call.ret.entries[3].weight < One

\* C23: interest tripwire. When accrue_interest is given an on-chain balance of an
\* asset that is not above the tracked total, or whose relative growth over the
\* tracked total exceeds max_interest_gain, it raises, no BalanceUpdate is applied
\* to any position and no position's interest tracker changes.
C23_InterestTripwire ==
    [][(last_call'.op = "accrue_interest") =>
         LET old_total == total_of(last_call'.distribution.totals,
                                   last_call'.on_chain_balances[1].asset)
             accrued == last_call'.on_chain_balances[1].balance - old_total
         IN  (accrued <= 0 \/ DecDiv(accrued, old_total) > last_call'.max_interest_gain)
             => /\ last_call'.err # NoErr
                /\ last_call'.ret = <<>>
                /\ \A p \in 1..Len(positions) :
                      /\ positions'[p].balance_update_events = positions[p].balance_update_events
                      /\ positions'[p].balance_updates = positions[p].balance_updates
                      /\ positions'[p].loan = positions[p].loan
                /\ interest_sync' = interest_sync]_vars

\* C23 witness: a consumer that runs what it is yielded was refused a balance of
\* an asset held by two positions that grew by more than max_interest_gain
C23_Witness ==
    /\ last_call.op = "accrue_interest"
    /\ last_call.run_yielded
    /\ last_call.err = "AssertionError"
    /\ Len(last_call.distribution.entries) >= 2
    /\ last_call.on_chain_balances[1].balance
         > total_of(last_call.distribution.totals, CreditAsset)

\* C24: monotonic interest balance. Over update_interest calls on a position's
\* interest tracker (the model has no Interest.adjust), last_token_amount never
\* decreases; an update whose new token amount is below the tracked
\* last_token_amount is rejected and leaves the tracker unchanged.
C24_MonotonicInterestBalance ==
    [][(last_call'.op = "update_interest") =>
         \A p \in 1..Len(positions) :
            /\ positions'[p].loan.last_token_amount >= positions[p].loan.last_token_amount
            /\ (/\ p = last_call'.position_id
                /\ positions[p].loan # NoLoan
                /\ last_call'.new_token_amount < positions[p].loan.last_token_amount)
               => /\ last_call'.err # NoErr
                  /\ positions'[p].loan = positions[p].loan]_vars

\* C25 as stated: liquidation guard precedes the chain. For the trade that opens a
\* short position with planned collateral below the liquidation threshold for the
\* planned borrow amount, create_short_loan raises LiquidationRisked, the position
\* has no loan, and no transaction of the trade is built or broadcast.
C25_LiquidationRisked ==
    \A tid \in 1..Len(trades) :
       LET t == trades[tid]
           planned_collateral == t.planned_reserve + t.planned_collateral_allocation
                                   + t.planned_collateral_consumption
       IN  (/\ is_short(t)
            /\ positions[t.position_id].trades[1] = tid
            /\ t.planned_quantity < 0
            /\ 100 * Abs(t.planned_quantity) >= LiquidationThresholdPercent * planned_collateral)
           => /\ positions[t.position_id].loan = NoLoan
              /\ ~t.started_at /\ ~t.broadcasted_at /\ ~t.executed_at
              /\ t.blockchain_transactions = <<>>
              /\ (last_call.op = "open_trade" /\ last_call.trade_id = tid)
                    => last_call.err = "LiquidationRisked"

\* C25: liquidation guard precedes the chain. For the trade that opens a short
\* position with planned collateral below the liquidation threshold for the planned
\* borrow amount, create_short_loan raises (LiquidationRisked, or AssertionError
\* when the trade puts up neither reserve nor allocated collateral), the position
\* has no loan, and no transaction of the trade is built or broadcast.
C25_LiquidationGuard ==
    \A tid \in 1..Len(trades) :
       LET t == trades[tid]
           planned_collateral == t.planned_reserve + t.planned_collateral_allocation
                                   + t.planned_collateral_consumption
       IN  (/\ is_short(t)
            /\ positions[t.position_id].trades[1] = tid
            /\ t.planned_quantity < 0
            /\ 100 * Abs(t.planned_quantity) >= LiquidationThresholdPercent * planned_collateral)
           => /\ positions[t.position_id].loan = NoLoan
              /\ ~t.started_at /\ ~t.broadcasted_at /\ ~t.executed_at
              /\ t.blockchain_transactions = <<>>
              /\ (last_call.op = "open_trade" /\ last_call.trade_id = tid)
                    => /\ last_call.fn = "create_short_loan"
                       /\ last_call.ret = NoLoan
                       /\ IF t.planned_collateral_allocation = 0 /\ t.planned_reserve = 0
                          THEN last_call.err = "AssertionError"
                          ELSE last_call.err = "LiquidationRisked"

\* C25 witness: the planning of a trade that opens a short with reserve as
\* collateral raised LiquidationRisked, and other trades were executed since
C25_Witness ==
    /\ last_call.op = "execute_trade"
    /\ last_call.err = NoErr
    /\ \E tid \in 1..Len(trades) :
          /\ is_short(trades[tid])
          /\ positions[trades[tid].position_id].trades[1] = tid
          /\ trades[tid].planned_quantity < 0
          /\ trades[tid].planned_reserve > 0
          /\ 100 * Abs(trades[tid].planned_quantity)
               >= LiquidationThresholdPercent
                    * (trades[tid].planned_reserve + trades[tid].planned_collateral_allocation
                         + trades[tid].planned_collateral_consumption)
          /\ get_status(trades[tid]) = "planned"

\* C26 as stated: health check after every loan mutation. Each of
\* create_credit_supply_loan, update_credit_supply_loan, create_short_loan and
\* update_short_loan that comes to a resulting loan runs check_health on it, and
\* never returns a loan that would be liquidated at once: it raises
\* LiquidationRisked instead.
C26_HealthCheckOnEveryLoan ==
    (last_call.op \in {"open_trade", "execute_trade", "create_short_loan",
                       "update_short_loan", "create_credit_supply_loan",
                       "update_credit_supply_loan"}
     /\ last_call.fn # "planned_loan_update")
    => /\ last_call.err \in {NoErr, "LiquidationRisked"} => last_call.checked
       /\ last_call.err = NoErr => check_health(last_call.ret) = NoErr
       /\ last_call.err # NoErr => last_call.ret = NoLoan

\* C26: health check after every loan mutation. The four loan functions never
\* return a loan that would be liquidated at once, they raise LiquidationRisked
\* instead; each runs check_health on the resulting loan, except update_short_loan
\* when nothing is borrowed any more in the resulting loan.
C26_HealthCheckAfterMutation ==
    (last_call.op \in {"open_trade", "execute_trade", "create_short_loan",
                       "update_short_loan", "create_credit_supply_loan",
                       "update_credit_supply_loan"}
     /\ last_call.fn # "planned_loan_update")
    => /\ last_call.err = "LiquidationRisked" => last_call.checked
       /\ last_call.err = NoErr =>
             /\ check_health(last_call.ret) = NoErr
             /\ \/ last_call.checked
                \/ /\ last_call.fn = "update_short_loan"
                   /\ last_call.ret.borrowed_quantity <= 0
       /\ last_call.err # NoErr => last_call.ret = NoLoan

\* C26 witness: update_short_loan raised LiquidationRisked for a trade that
\* borrows more on an executed short position
C26_Witness ==
    /\ last_call.op = "open_trade"
    /\ last_call.fn = "update_short_loan"
    /\ last_call.err = "LiquidationRisked"
    /\ positions[last_call.position_id].loan # NoLoan
    /\ check_health(positions[last_call.position_id].loan) = NoErr

\* C27: loan created exactly once. A create function succeeds only on a position
\* without a loan (create_short_loan: with exactly one trade), an update function
\* only after it (update_short_loan: more than one trade, update_credit_supply_loan:
\* an existing loan), a create on a position that has a loan fails; a position
\* gets its loan at its first trade and the loan is changed by updates only.
C27_LoanCreatedOnce ==
    [][(last_call'.op \in {"open_trade", "execute_trade", "create_short_loan",
                           "update_short_loan", "create_credit_supply_loan",
                           "update_credit_supply_loan"}) =>
         LET pid == last_call'.position_id
             loan_before == IF pid <= Len(positions) THEN positions[pid].loan ELSE NoLoan
             passed == last_call'.err \in {NoErr, "LiquidationRisked"}
             creates == {"create_short_loan", "create_credit_supply_loan"}
         IN  /\ (last_call'.fn = "create_short_loan" /\ passed)
                   => Len(positions'[pid].trades) = 1 /\ loan_before = NoLoan
             /\ (last_call'.fn = "create_credit_supply_loan" /\ passed)
                   => loan_before = NoLoan
             /\ (last_call'.fn = "update_short_loan" /\ passed)
                   => Len(positions'[pid].trades) > 1
             /\ (last_call'.fn = "update_credit_supply_loan" /\ passed)
                   => loan_before # NoLoan
             /\ (last_call'.fn \in creates /\ loan_before # NoLoan)
                   => last_call'.err = "AssertionError" /\ last_call'.ret = NoLoan
             /\ (positions'[pid].loan # loan_before /\ loan_before = NoLoan)
                   => /\ last_call'.op = "execute_trade"
                      /\ last_call'.trade_id = positions'[pid].trades[1]
                      /\ last_call'.fn \in creates \cup {"planned_loan_update"}
             /\ (positions'[pid].loan # loan_before /\ loan_before # NoLoan)
                   => last_call'.fn \in {"update_short_loan", "update_credit_supply_loan"}
             /\ \A p \in 1..Len(positions) : p # pid => positions'[p].loan = positions[p].loan
      ]_vars

\* C27 witness: a create function was called on a position that has a loan and
\* two trades, and failed
C27_Witness ==
    /\ last_call.op \in {"create_short_loan", "create_credit_supply_loan"}
    /\ last_call.err = "AssertionError"
    /\ positions[last_call.position_id].loan # NoLoan
    /\ Len(positions[last_call.position_id].trades) = 2
    /\ trades[positions[last_call.position_id].trades[2]].planned_loan_update # NoLoan

\* C28: plan versus execute mode. update_short_loan in mode execute changes the
\* borrowed quantity by -trade.executed_quantity and the collateral by the executed
\* consumption + allocation + reserve, and in mode plan by the planned fields; for
\* a trade filled with another quantity than planned the execute-mode loan carries
\* the executed amounts.
C28_PlanVersusExecute ==
    [][(last_call'.op \in {"open_trade", "execute_trade", "update_short_loan"}
        /\ last_call'.fn = "update_short_loan"
        /\ last_call'.err = NoErr) =>
         LET t == trades'[last_call'.trade_id]
             before == positions[last_call'.position_id].loan
         IN  IF last_call'.mode = "execute"
             THEN /\ last_call'.ret.borrowed_quantity
                       = before.borrowed_quantity + Dec(-t.executed_quantity)
                  /\ last_call'.ret.quantity
                       = before.quantity
                         + Dec(t.executed_collateral_consumption
                               + t.executed_collateral_allocation + t.executed_reserve)
             ELSE /\ last_call'.ret.borrowed_quantity
                       = before.borrowed_quantity + Dec(-t.planned_quantity)
                  /\ last_call'.ret.quantity
                       = before.quantity
                         + Dec(t.planned_collateral_consumption
                               + t.planned_collateral_allocation + t.planned_reserve)
      ]_vars

C30_SingleReserveAsset ==
    [][/\ Cardinality(DOMAIN reserves') <= 1
       /\ (last_call'.op = "sync_treasury" /\ calls' # calls) =>
            LET deposits == {i \in 1..Len(last_call'.window) :
                                last_call'.window[i].kind = "deposit"}
                foreign == {i \in deposits :
                               /\ DOMAIN reserves # {}
                               /\ last_call'.window[i].items[1].asset \notin DOMAIN reserves}
            IN  /\ (DOMAIN reserves = {} /\ deposits # {} /\ 1 \in deposits)
                      => DOMAIN reserves' = {last_call'.window[1].items[1].asset}
                /\ DOMAIN reserves # {} => DOMAIN reserves' = DOMAIN reserves
                /\ foreign # {} =>
                      /\ last_call'.err # NoErr
                      /\ last_call'.ret = <<>>
                      /\ 1 \in foreign =>
                            /\ last_call'.err = "AssertionError"
                            /\ reserves' = reserves
                            /\ positions' = positions
                            /\ next_balance_update_id' = next_balance_update_id
                            /\ processed_events' = processed_events
      ]_vars

\* C30 witness: after a deposit was synced, a sync read a deposit denominated in
\* another asset than the reserve and raised
C30_Witness ==
    /\ last_call.op = "sync_treasury"
    /\ last_call.err = "AssertionError"
    /\ Len(last_call.window) = 1
    /\ last_call.window[1].kind = "deposit"
    /\ DOMAIN reserves # {}
    /\ last_call.window[1].items[1].asset \notin DOMAIN reserves
    /\ \E d \in processed_events : d.type = "deposit"

\* C31: exclusive position states. Every position id is in exactly one of
\* open_positions, closed_positions and frozen_positions, and a position with a
\* trade in status failed (not repaired) is in frozen_positions and not in
\* open_positions.
C31_ExclusivePositionStates ==
    /\ \A pid \in 1..Len(positions) :
          LET open == pid \in open_positions
              closed == pid \in closed_positions
              frozen == InFrozen(frozen_positions, pid)
          IN  /\ open \/ closed \/ frozen
              /\ ~(open /\ closed) /\ ~(open /\ frozen) /\ ~(closed /\ frozen)
              /\ Cardinality({k \in 1..Len(frozen_positions) : frozen_positions[k] = pid}) <= 1
    /\ \A tid \in 1..Len(trades) :
          is_failed(trades[tid]) =>
              /\ InFrozen(frozen_positions, trades[tid].position_id)
              /\ trades[tid].position_id \notin open_positions

\* C32: zero quantity closes. A step whose newly successful trades bring the
\* quantity of an open position to exactly zero moves the position from
\* open_positions to closed_positions, and no position is open with quantity zero
\* after the step that marked a trade on it successful.
C32_ZeroQuantityCloses ==
    [][/\ \A tid \in NewlySuccessful :
             LET pid == trades'[tid].position_id
             IN  (/\ (pid \in open_positions \/ pid > Len(positions))
                  /\ positions'[pid].quantity = 0)
                 => (pid \notin open_positions' /\ pid \in closed_positions')
       /\ \A tid \in NewlySuccessful :
             trades'[tid].position_id \in open_positions'
             => positions'[trades'[tid].position_id].quantity # 0
      ]_vars

\* C33: reorganisation aborts the sync. When the reorganisation monitor detects
\* contradicted block data during sync_treasury, the call raises the reorg
\* exception, returns no BalanceUpdate, applies none (no reserve or position
\* quantity, balance update list or id counter changes), records none and does
\* not advance last_block_scanned.
C33_ReorgAbortsSync ==
    [][(last_call'.op = "sync_treasury" /\ calls' # calls
        /\ last_call'.err = "ChainReorganisationDetected")
       => /\ last_call'.ret = <<>>
          /\ last_call'.applied = <<>>
          /\ reserves' = reserves
          /\ positions' = positions
          /\ next_balance_update_id' = next_balance_update_id
          /\ processed_events' = processed_events
          /\ last_block_scanned' = last_block_scanned
      ]_vars

\* C34: contiguous scan windows. A successful sync_treasury scans from the
\* deployment block when no block was scanned yet, and from last_block_scanned + 1
\* otherwise, up to the head; it reads exactly the events of these blocks and sets
\* last_block_scanned to the head. No other step changes last_block_scanned, so
\* each window starts where the previous successful one ended: the windows are
\* disjoint and cover the blocks from the deployment block to the head once.
C34_ContiguousScanWindows ==
    [][IF last_call'.op = "sync_treasury" /\ calls' # calls /\ last_call'.err = NoErr
       THEN LET head == DeploymentBlock + Len(chain')
                start == last_call'.start_block
            IN  /\ last_block_scanned = 0 => start = deployment.block_number
                /\ last_block_scanned # 0 => start = last_block_scanned + 1
                /\ last_call'.end_block = head
                /\ last_block_scanned' = head
                /\ last_block_scanned' >= last_block_scanned
                /\ last_call'.window =
                      SubSeq(chain', IF start > DeploymentBlock
                                     THEN start - DeploymentBlock ELSE 1, Len(chain'))
       ELSE last_block_scanned' = last_block_scanned
      ]_vars

\* C34 witness: a second successful sync scanned a window that starts after the
\* block the first one ended at, and found an event in it
C34_Witness ==
    /\ last_call.op = "sync_treasury"
    /\ last_call.err = NoErr
    /\ last_call.start_block > deployment.block_number + 1
    /\ last_call.window # <<>>
    /\ last_block_scanned = last_call.end_block
    /\ Cardinality(processed_events) >= 2

\* C35: failed sync is atomic. When a sync_treasury call raises, last_block_scanned
\* is not advanced and the reserve and position quantities, their balance_updates
\* lists, processed_events and next_balance_update_id are what they were before
\* the call.
C35_FailedSyncIsAtomic ==
    [][(last_call'.op = "sync_treasury" /\ calls' # calls /\ last_call'.err # NoErr)
       => /\ last_block_scanned' = last_block_scanned
          /\ reserves' = reserves
          /\ positions' = positions
          /\ processed_events' = processed_events
          /\ next_balance_update_id' = next_balance_update_id
      ]_vars

\* C36: redemption never empties a holder. Every redemption BalanceUpdate a sync
\* returns leaves a strictly positive quantity, and no reserve or position
\* quantity that a sync has reduced (a redemption, applied or failing) is zero or
\* negative after the call.
C36_RedemptionNeverEmpties ==
    [][(last_call'.op = "sync_treasury" /\ calls' # calls)
       => /\ \A i \in 1..Len(last_call'.ret) :
                last_call'.ret[i].type = "redemption" => last_call'.ret[i].new_quantity > 0
          /\ \A a \in DOMAIN reserves :
                reserves'[a].quantity < reserves[a].quantity => reserves'[a].quantity > 0
          /\ \A p \in 1..Len(positions) :
                positions'[p].quantity < positions[p].quantity => positions'[p].quantity > 0
      ]_vars

\* C37: repair scope. find_trades_to_be_repaired returns exactly the trades that
\* need repair and belong to open or frozen positions, each once, and
\* repair_trades leaves every closed position and every trade of a closed
\* position unchanged, whatever the status of those trades.
C37_RepairScope ==
    [][LET in_scope == {tid \in 1..Len(trades) :
                           /\ is_repair_needed(trades[tid])
                           /\ \/ trades[tid].position_id \in open_positions
                              \/ InFrozen(frozen_positions, trades[tid].position_id)}
           found == IF last_call'.op = "repair_trades"
                    THEN last_call'.trades_needing_repair ELSE last_call'.ret
       IN  (last_call'.op \in {"find_trades_to_be_repaired", "repair_trades"}
            /\ calls' # calls)
           => /\ {found[i] : i \in 1..Len(found)} = in_scope
              /\ Len(found) = Cardinality(in_scope)
              /\ closed_positions' = closed_positions
              /\ \A pid \in closed_positions :
                    /\ positions'[pid] = positions[pid]
                    /\ \A k \in 1..Len(positions[pid].trades) :
                          trades'[positions[pid].trades[k]] = trades[positions[pid].trades[k]]
      ]_vars

\* C37 witness: repair_trades repaired a trade of an open or frozen position
\* while a closed position holds a trade that needs repair
C37_Witness ==
    /\ last_call.op = "repair_trades"
    /\ last_call.err = NoErr
    /\ last_call.new_trades # <<>>
    /\ \E tid \in 1..Len(trades) :
          /\ trades[tid].position_id \in closed_positions
          /\ is_repair_needed(trades[tid])

\* C38: repair is idempotent. After repair_trades(attempt_repair=True,
\* interactive=False) has completed, neither the originals it repaired nor the
\* counter trades it made need repair, and a repair_trades call that follows
\* immediately finds no trade needing repair, creates no trade, does not raise and
\* leaves the portfolio unchanged.
C38_RepairIsIdempotent ==
    [][(/\ last_call.op = "repair_trades"
        /\ last_call.attempt_repair /\ ~last_call.interactive
        /\ last_call.err = NoErr)
       => /\ \A i \in 1..Len(last_call.trades_needing_repair) :
                ~is_repair_needed(trades[last_call.trades_needing_repair[i]])
          /\ \A i \in 1..Len(last_call.new_trades) :
                ~is_repair_needed(trades[last_call.new_trades[i]])
          /\ (last_call'.op = "repair_trades" /\ calls' # calls)
             => /\ last_call'.trades_needing_repair = <<>>
                /\ last_call'.new_trades = <<>>
                /\ last_call'.err = NoErr
                /\ PortfolioUnchanged
      ]_vars

\* C38 witness: the first call of the run repaired two trades, the second call
\* is a repair_trades that found nothing to repair
C38_Witness ==
    /\ calls = MaxCalls - MaxRepairCalls + 2
    /\ last_call.op = "repair_trades"
    /\ last_call.attempt_repair
    /\ last_call.trades_needing_repair = <<>>
    /\ Cardinality({tid \in 1..Len(trades) : trades[tid].repaired_at}) = 2
    /\ Cardinality({tid \in 1..Len(trades) : trades[tid].trade_type = "repair"}) = 2

\* ---------------------------------------------------------------------------
\* cli/bootstrap.py: backup_state and the files it reads and writes
\* ---------------------------------------------------------------------------

\* backup_state tries the names numbered range(1, 99): the last one is 98
LastBackupIndex == 98

\* Depth of a run of the backup specification
MaxBackupCalls == 4

\* Contents a state file goes through (content n is the n-th save)
MaxVersions == 3

\* The suffixes asked for: the default one and the one a repair uses
BackupSuffixes == {"backup", "repair"}

\* One dot-separated component of a file name: "state", "json", "backup-7"
Component(name, n) == [name |-> name, n |-> n]

\* The path "state.json": a file name is the sequence of its components
StateFile == <<Component("state", 0), Component("json", 0)>>

\* Path.with_suffix: the last component of the name is replaced by the suffix
with_suffix(path, suffix) == (IF Len(path) > 1 THEN SubSeq(path, 1, Len(path) - 1) ELSE path) \o suffix

\* The name state_file.with_suffix(f".{backup_suffix}-{i}.json")
backup_file_name(state_file, backup_suffix, i) == with_suffix(state_file, <<Component(backup_suffix, i), Component("json", 0)>>)

\* os.path.exists
path_exists(fs, path) == path \in DOMAIN fs

\* shutil.copy(src, dst): dst is created or replaced with the content of src
shutil_copy(fs, src, dst) == [p \in DOMAIN fs \cup {dst} |-> IF p = dst THEN fs[src] ELSE fs[p]]

\* JSONFileStore.is_pristine: the store has no file yet
is_pristine(fs, state_file) == ~path_exists(fs, state_file)

\* The result of backup_state: the files afterwards, the backup written, the
\* state loaded and the exception raised
BackupResult(fs, backup_file, ret, err) == [files |-> fs, backup_file |-> backup_file, ret |-> ret, err |-> err]

\* A loop that writes the first candidate name whether or not it exists
backup_loop_overwriting(fs, state_file, backup_suffix, i) == LET backup_file == backup_file_name(state_file, backup_suffix, i)
                                                                 copied == shutil_copy(fs, state_file, backup_file)
                                                             IN BackupResult(copied, backup_file, copied[state_file], NoErr)

\* The for loop of backup_state from candidate i on, with its else branch and
\* the load that follows it
RECURSIVE backup_loop(_, _, _, _)
backup_loop(fs, state_file, backup_suffix, i) == IF i > LastBackupIndex
    THEN BackupResult(fs, backup_file_name(state_file, backup_suffix, LastBackupIndex), <<>>, "RuntimeError")
    ELSE LET backup_file == backup_file_name(state_file, backup_suffix, i)
         IN IF path_exists(fs, backup_file)
            THEN backup_loop(fs, state_file, backup_suffix, i + 1)
            ELSE LET copied == shutil_copy(fs, state_file, backup_file)
                 IN BackupResult(copied, backup_file, copied[state_file], NoErr)

\* backup_state(state_file, backup_suffix)
backup_state(fs, state_file, backup_suffix) == IF is_pristine(fs, state_file)
    THEN BackupResult(fs, <<>>, <<>>, "AssertionError")
    ELSE backup_loop(fs, state_file, backup_suffix, 1)

\* The backups numbered in a set, all holding the content of an earlier save
BackupFiles(indices) == [p \in {backup_file_name(StateFile, "backup", i) : i \in indices} |-> 0]

\* The state file with its content, when there is one
StateFiles(present) == [p \in (IF present THEN {StateFile} ELSE {}) |-> 1]

\* The files of two disjoint sets of paths together
MergeFiles(f, g) == [p \in DOMAIN f \cup DOMAIN g |-> IF p \in DOMAIN f THEN f[p] ELSE g[p]]

\* The directories a backup can start from: the state file present or not,
\* and no backup, a few, all candidate names but the last, or all of them,
\* with or without a gap in the numbering
BackupDirectories == {MergeFiles(StateFiles(present), BackupFiles((1..taken) \ gap)) :
                        present \in BOOLEAN,
                        taken \in {0, 2, LastBackupIndex - 1, LastBackupIndex},
                        gap \in {{}, {1}, {2}}}

InitBackup ==
    /\ chain = <<>>
    /\ deployment = Deployed(DeploymentBlock)
    /\ last_block_scanned = 0
    /\ processed_events = {}
    /\ SetLedgerInit(EmptyLedger)
    /\ last_call = [op |-> "init", err |-> NoErr]
    /\ calls = MaxCalls - MaxBackupCalls
    /\ interest_sync = NoInterestSync
    /\ files \in BackupDirectories

\* The command backup_state is run from (repair, reset, console)
BackupState ==
    \E backup_suffix \in BackupSuffixes :
        LET r == backup_state(files, StateFile, backup_suffix)
        IN /\ files' = r.files
           /\ last_call' = [op |-> "backup_state", state_file |-> StateFile,
                            backup_suffix |-> backup_suffix, backup_file |-> r.backup_file,
                            ret |-> r.ret, err |-> r.err]
           /\ SetLedger(Ledger)
           /\ UNCHANGED <<chain, deployment, last_block_scanned, processed_events, interest_sync>>
           /\ Counted

\* The store saves the state: the state file is written with new content
SaveState ==
    /\ LET content == IF path_exists(files, StateFile) THEN files[StateFile] + 1 ELSE 1
       IN /\ content <= MaxVersions
          /\ files' = [p \in DOMAIN files \cup {StateFile} |-> IF p = StateFile THEN content ELSE files[p]]
          /\ last_call' = [op |-> "save_state", state_file |-> StateFile, ret |-> content, err |-> NoErr]
    /\ SetLedger(Ledger)
    /\ UNCHANGED <<chain, deployment, last_block_scanned, processed_events, interest_sync>>
    /\ Counted

\* The operator removes one of the first backups by hand
RemoveBackup ==
    /\ \E backup_suffix \in BackupSuffixes, i \in 1..2 :
        LET path == backup_file_name(StateFile, backup_suffix, i)
        IN /\ path_exists(files, path)
           /\ files' = [p \in DOMAIN files \ {path} |-> files[p]]
           /\ last_call' = [op |-> "remove_backup", state_file |-> path, ret |-> <<>>, err |-> NoErr]
    /\ SetLedger(Ledger)
    /\ UNCHANGED <<chain, deployment, last_block_scanned, processed_events, interest_sync>>
    /\ Counted

NextBackup == BackupState \/ SaveState \/ RemoveBackup

BackupSpec == InitBackup /\ [][NextBackup]_vars

\* The candidate names of a backup that are not taken yet
FreeBackupIndices(fs, state_file, backup_suffix) == {i \in 1..LastBackupIndex : backup_file_name(state_file, backup_suffix, i) \notin DOMAIN fs}

\* The lowest number of a non-empty set of numbers
Lowest(S) == CHOOSE i \in S : \A j \in S : i <= j

MaxSeriesLen == 3

\* The largest value of a series drawn
MaxValue == 2

\* Calls made on one drawn input
MaxCrossCalls == 1

\* The buffers drawn, as hundredths (0.5 is 50)
BufferPercents == {0, 50}

\* Python's None, and an int, in a slot that holds either
PyNone == <<>>

PyInt(n) == <<n>>

\* What a call returns: a bare bool, or the tuple (flag, index)
PyBool(flag) == [type |-> "bool", flag |-> flag]

PyTuple(flag, index) == [type |-> "tuple", flag |-> flag, index |-> index]

\* The outcome of a call: a returned value or a raised exception
CrossReturn(value) == [ret |-> value, err |-> NoErr]

CrossRaise(err) == [ret |-> PyNone, err |-> err]

\* _get_return_value
get_return_value(return_value, return_cross_index, cross_index) == LET index == IF return_value = FALSE THEN PyNone ELSE cross_index
    IN IF return_cross_index THEN PyTuple(return_value, index) ELSE PyBool(return_value)

\* series.iloc[-len(other):] when the series is the longer one
trim_to(series, other) == IF Len(series) > Len(other) THEN SubSeq(series, Len(series) - Len(other) + 1, Len(series)) ELSE series

\* _validate_args, for series and buffers of the right type
validate_args(min_values_above_cross, min_values_below_cross, buffer_above, buffer_below) ==
    /\ min_values_above_cross > 0
    /\ min_values_below_cross > 0
    /\ 0 <= buffer_above /\ buffer_above <= 100
    /\ 0 <= buffer_below /\ buffer_below <= 100

\* The value of series2 at the cross; zero is replaced by epsilon = 1e-10
cross_value_at(series2, k) == [value |-> series2[k], epsilon |-> series2[k] = 0]

\* x > cross_value, x < cross_value for an integer x (epsilon is between 0 and 1)
is_above(x, cross_value) == IF cross_value.epsilon THEN x >= 1 ELSE x > cross_value.value

is_below(x, cross_value) == IF cross_value.epsilon THEN x <= 0 ELSE x < cross_value.value

\* (high - cross_value)/cross_value >= percent/100, for a cross value above zero
exceeds_by(high, cross_value, percent) == IF cross_value.epsilon THEN high >= 1
    ELSE (high - cross_value.value) * 100 >= percent * cross_value.value

\* (cross_value - low)/cross_value >= percent/100, for a cross value above zero
falls_by(low, cross_value, percent) == IF cross_value.epsilon THEN low <= 0
    ELSE (cross_value.value - low) * 100 >= percent * cross_value.value

\* max() and min() of a non-empty series
series_max(series) == CHOOSE x \in {series[i] : i \in DOMAIN series} : \A i \in DOMAIN series : series[i] <= x

series_min(series) == CHOOSE x \in {series[i] : i \in DOMAIN series} : \A i \in DOMAIN series : x <= series[i]

\* The first and the last n values of a series: .iloc[:n] and .iloc[-n:]
first_values(series, n) == SubSeq(series, 1, IF n < Len(series) THEN n ELSE Len(series))

last_values(series, n) == SubSeq(series, IF n < Len(series) THEN Len(series) - n + 1 ELSE 1, Len(series))

\* The sign of the slope np.polyfit fits to the standardised series: that of
\* n * sum(i * y[i]) - sum(i) * sum(y), zero for a constant series
slope_sign(series) == LET n == Len(series)
                          s == n * SumSeq([i \in 1..n |-> (i - 1) * series[i]]) - SumSeq([i \in 1..n |-> i - 1]) * SumSeq(series)
                      IN IF s > 0 THEN 1 ELSE IF s < 0 THEN -1 ELSE 0

\* Whether the series has one value only: _standardize divides by a zero
\* standard deviation and the fit is made on NaN
is_constant(series) == \A i \in DOMAIN series : series[i] = series[1]

\* The min_gradient filter (sign is 1 for a crossover, -1 for a crossunder):
\* "pass", "reject", or an error of the fit; on NaN the build decides between
\* a fit that raises and a NaN slope, which no comparison rejects
gradient_outcomes(series, min_gradient, sign) == IF min_gradient = PyNone THEN {"pass"}
    ELSE IF is_constant(series) THEN {"pass", "LinAlgError"}
    ELSE IF sign * slope_sign(series) < 0 THEN {"reject"}
    ELSE {"pass"}

\* The outcomes of the last filter and of the return that follows it
gradient_returns(series, min_gradient, sign, return_cross_index, cross_index) ==
    {IF o = "LinAlgError" THEN CrossRaise(o)
     ELSE CrossReturn(get_return_value(o = "pass", return_cross_index, cross_index)) :
        o \in gradient_outcomes(series, min_gradient, sign)}

\* The position (from 1) of the latest crossover of series1 above series2,
\* 0 when there is none
latest_crossover(series1, series2) == LET K == {k \in 2..Len(series1) : series1[k - 1] <= series2[k - 1] /\ series1[k] > series2[k]}
    IN IF K = {} THEN 0 ELSE CHOOSE k \in K : \A j \in K : j <= k

\* The position (from 1) of the latest crossunder, 0 when there is none
latest_crossunder(series1, series2) == LET K == {k \in 2..Len(series1) : series1[k - 1] >= series2[k - 1] /\ series1[k] < series2[k]}
    IN IF K = {} THEN 0 ELSE CHOOSE k \in K : \A j \in K : j <= k

\* has_crossover_occurred: the set of its outcomes
has_crossover_occurred(s1, s2, min_values_above_cross, min_values_below_cross, buffer_above, buffer_below, min_gradient, return_cross_index) ==
    LET series1 == trim_to(s1, s2)
        series2 == trim_to(s2, s1)
        k == latest_crossover(series1, series2)
        cross_index == PyInt(-(Len(series1) - (k - 1)))
        cross_value == cross_value_at(series2, k)
        after_cross1 == SubSeq(series1, k, Len(series1))
        before_cross1 == SubSeq(series1, 1, k - 1)
        rejected == {CrossReturn(get_return_value(FALSE, return_cross_index, cross_index))}
    IN IF ~validate_args(min_values_above_cross, min_values_below_cross, buffer_above, buffer_below)
       THEN {CrossRaise("AssertionError")}
       ELSE IF k = 0 THEN {CrossReturn(get_return_value(FALSE, return_cross_index, PyNone))}
       ELSE IF ~exceeds_by(series_max(after_cross1), cross_value, buffer_above) THEN rejected
       ELSE IF Len(after_cross1) < min_values_above_cross THEN rejected
       ELSE IF \E i \in DOMAIN first_values(after_cross1, min_values_above_cross) : ~is_above(after_cross1[i], cross_value) THEN rejected
       ELSE IF ~\E i \in DOMAIN before_cross1 : is_below(before_cross1[i], cross_value) THEN rejected
       ELSE IF Len(before_cross1) < min_values_below_cross THEN rejected
       ELSE IF \E x \in {last_values(before_cross1, min_values_below_cross)[i] : i \in 1..min_values_below_cross} : is_above(x, cross_value) THEN rejected
       ELSE IF ~falls_by(series_min(before_cross1), cross_value, buffer_below) THEN rejected
       ELSE gradient_returns(series1, min_gradient, 1, return_cross_index, cross_index)

\* has_crossunder_occurred: the set of its outcomes
has_crossunder_occurred(s1, s2, min_values_above_cross, min_values_below_cross, buffer_above, buffer_below, min_gradient, return_cross_index) ==
    LET series1 == trim_to(s1, s2)
        series2 == trim_to(s2, s1)
        k == latest_crossunder(series1, series2)
        cross_index == PyInt(-(Len(series1) - (k - 1)))
        cross_value == cross_value_at(series2, k)
        after_cross1 == SubSeq(series1, k, Len(series1))
        before_cross1 == SubSeq(series1, 1, k - 1)
        rejected == {CrossReturn(get_return_value(FALSE, return_cross_index, cross_index))}
    IN IF ~validate_args(min_values_above_cross, min_values_below_cross, buffer_above, buffer_below)
       THEN {CrossRaise("AssertionError")}
       ELSE IF k = 0 THEN {CrossReturn(get_return_value(FALSE, return_cross_index, PyNone))}
       ELSE IF Len(after_cross1) < min_values_below_cross THEN rejected
       ELSE IF ~falls_by(series_min(after_cross1), cross_value, buffer_below) THEN rejected
       ELSE IF \E i \in DOMAIN first_values(after_cross1, min_values_below_cross) : is_above(after_cross1[i], cross_value) THEN rejected
       ELSE IF ~\E i \in DOMAIN before_cross1 : is_above(before_cross1[i], cross_value) THEN {CrossReturn(PyBool(FALSE))}
       ELSE IF Len(series1) - (k - 1) < min_values_above_cross THEN rejected
       ELSE IF ~exceeds_by(series_max(before_cross1), cross_value, buffer_above) THEN rejected
       ELSE IF \E x \in {last_values(before_cross1, min_values_above_cross)[i] : i \in DOMAIN last_values(before_cross1, min_values_above_cross)} : is_below(x, cross_value) THEN rejected
       ELSE gradient_returns(series1, min_gradient, -1, return_cross_index, cross_index)

\* The series drawn: up to MaxSeriesLen values of 0..MaxValue
DrawnSeries == UNION {[1..n -> 0..MaxValue] : n \in 1..MaxSeriesLen}

\* The arguments drawn for one call
CrossArguments == [series1 : DrawnSeries, series2 : DrawnSeries,
                   min_values_above_cross : 1..2, min_values_below_cross : 1..2,
                   buffer_above_percent : BufferPercents, buffer_below_percent : BufferPercents,
                   min_gradient : {PyNone, PyInt(0)}, return_cross_index : BOOLEAN]

InitCross ==
    /\ chain = <<>>
    /\ deployment = Deployed(DeploymentBlock)
    /\ last_block_scanned = 0
    /\ processed_events = {}
    /\ SetLedgerInit(EmptyLedger)
    /\ \E args \in CrossArguments : last_call = [op |-> "init", args |-> args, ret |-> PyNone, err |-> NoErr]
    /\ calls = MaxCalls - MaxCrossCalls
    /\ interest_sync = NoInterestSync
    /\ files = NoFiles

\* A strategy asks whether series1 crossed above series2
HasCrossoverOccurred ==
    /\ LET a == last_call.args
       IN \E r \in has_crossover_occurred(a.series1, a.series2, a.min_values_above_cross, a.min_values_below_cross, a.buffer_above_percent, a.buffer_below_percent, a.min_gradient, a.return_cross_index) :
            last_call' = [op |-> "has_crossover_occurred", args |-> a, ret |-> r.ret, err |-> r.err]
    /\ SetLedger(Ledger)
    /\ UNCHANGED <<chain, deployment, last_block_scanned, processed_events, interest_sync, files>>
    /\ Counted

\* A strategy asks whether series1 crossed below series2
HasCrossunderOccurred ==
    /\ LET a == last_call.args
       IN \E r \in has_crossunder_occurred(a.series1, a.series2, a.min_values_above_cross, a.min_values_below_cross, a.buffer_above_percent, a.buffer_below_percent, a.min_gradient, a.return_cross_index) :
            last_call' = [op |-> "has_crossunder_occurred", args |-> a, ret |-> r.ret, err |-> r.err]
    /\ SetLedger(Ledger)
    /\ UNCHANGED <<chain, deployment, last_block_scanned, processed_events, interest_sync, files>>
    /\ Counted

NextCross == HasCrossoverOccurred \/ HasCrossunderOccurred

CrossSpec == InitCross /\ [][NextCross]_vars

\* C40 (crossover result shape): when the index is requested, a call of
\* has_crossover_occurred or has_crossunder_occurred that returns, returns a
\* pair (flag, index) whose index is None exactly when the flag is False; a
\* cross rejected by a filter gives (False, None).
C40_CrossoverResultShape ==
    (/\ last_call.op \in {"has_crossover_occurred", "has_crossunder_occurred"}
     /\ last_call.err = NoErr
     /\ last_call.args.return_cross_index)
    => /\ last_call.ret.type = "tuple"
       /\ (last_call.ret.index = PyNone) <=> (last_call.ret.flag = FALSE)

====
